---- MODULE Spec2Model ----
(***************************************************************************)
(* FreeRCT people.cpp: the guest pool (Guests), its complaint channels,    *)
(* the staff registry (Staff) and the mechanic dispatcher, as state        *)
(* machines over the fields of the two global objects _guests and _staff.  *)
(***************************************************************************)
EXTENDS Integers, Sequences, FiniteSets, TLC

(* ------------------------------------------------------------------ *)
(* Bounds of the model.                                                 *)
(* ------------------------------------------------------------------ *)
\* Number of slots of the guest block (people.h, scaled down).
GUEST_BLOCK_SIZE == 3
\* Number of DoTick calls in a day (dates.h, scaled down).
TICK_COUNT_PER_DAY == 2
\* Size of the world in voxel stacks (x and y).
WorldXSize == 3
WorldYSize == 3
\* The complaint timers are followed up to COMPLAINT_TIMEOUT + MaxOverTime.
MaxOverTime == 1
\* The complaint counters are followed up to threshold + MaxOverCount.
MaxOverCount == 1
\* Complaints a channel other than the one under study may collect.
MaxStray == 1
\* Messages the inbox is followed for.
MaxInbox == 2
\* Edge stacks that hold a path at the same time.
MaxPaths == 2
\* Staff members employed at the same time.
MaxStaff == 3
\* Mechanics employed at the same time while the dispatcher is followed.
MaxMechanics == 2
\* Hires the registry is followed for after a reset.
MaxHires == 4
\* Rides waiting for a mechanic at the same time.
MaxRequests == 2
\* Complaints the guests make before the game is saved.
MaxComplaints == 2
\* Staff members employed at the same time while the id counter runs down.
MaxAlone == 1

MaxFileStaff == 2

MaxFileRequests == 1

MaxFileComplaints == 1

(* ------------------------------------------------------------------ *)
(* Program constants.                                                   *)
(* ------------------------------------------------------------------ *)
COMPLAINT_TIMEOUT == 8 * 60 * 1000
COMPLAINT_THRESHOLD_HUNGER == 80
COMPLAINT_THRESHOLD_THIRST == 80
COMPLAINT_THRESHOLD_WASTE == 30
COMPLAINT_THRESHOLD_LITTER == 25
COMPLAINT_THRESHOLD_VANDALISM == 15
CURRENT_VERSION_GSTS == 2
STAFF_BASE_ID == 65535

CURRENT_VERSION_STAF == 3

Channels == {"hunger", "thirst", "waste", "litter", "vandalism"}

\* Every channel held to the hunger threshold.
HungerThresholdOnly(K) == COMPLAINT_THRESHOLD_HUNGER

COMPLAINT_THRESHOLD(K) ==
  CASE K = "hunger"    -> COMPLAINT_THRESHOLD_HUNGER
    [] K = "thirst"    -> COMPLAINT_THRESHOLD_THIRST
    [] K = "waste"     -> COMPLAINT_THRESHOLD_WASTE
    [] K = "litter"    -> COMPLAINT_THRESHOLD_LITTER
    [] K = "vandalism" -> COMPLAINT_THRESHOLD_VANDALISM

\* The player message each channel sends.
GUI_MESSAGE(K) ==
  CASE K = "hunger"    -> "GUI_MESSAGE_COMPLAIN_HUNGRY"
    [] K = "thirst"    -> "GUI_MESSAGE_COMPLAIN_THIRSTY"
    [] K = "waste"     -> "GUI_MESSAGE_COMPLAIN_TOILET"
    [] K = "litter"    -> "GUI_MESSAGE_COMPLAIN_LITTER"
    [] K = "vandalism" -> "GUI_MESSAGE_COMPLAIN_VANDALISM"

\* Arithmetic of the fixed-width fields.
U16(x) == x % 65536
\* A 16 bit word kept as it is, unsigned.
KeepWord(w) == w
\* A 16 bit word read back as a signed int16.
ToInt16(w) == IF w >= 32768 THEN w - 65536 ELSE w

Min(a, b) == IF a < b THEN a ELSE b

Slots == 0 .. (GUEST_BLOCK_SIZE - 1)

AnimateResults == {"OAR_OK", "OAR_REMOVE", "OAR_DEACTIVATE"}

VARIABLES
  \* Guests
  active,                \* block.guests[i].IsActive()
  free_idx,
  start_voxel,           \* <<x, y>>
  daily_frac,
  next_daily_index,
  complaint_counter,     \* complaint_counter_<channel>
  time_since_complaint,  \* time_since_complaint_<channel>
  \* collaborators
  paths,                 \* _world: the voxel stacks holding a valid flat path
  max_guests,            \* _scenario.max_guests
  inbox,                 \* _inbox: the messages sent, oldest first
  \* observation
  last_op,               \* the operation that ran last and what it returned
  win_ticks,             \* DoTick calls seen by the open observation window, -1: none
  win_upd,               \* DailyUpdate calls each slot got in the window (2: more)
  win_stay,              \* the slot has been active since the window opened
  since_msg,             \* delays summed since the channel's last message, -1: none yet
  last_gap,              \* since_msg when the channel's latest message was sent
  focus,                 \* the channel whose guests keep complaining
  days,                  \* OnNewDay calls counted by the spawn scenario
  \* Staff
  last_person_id,
  mechanics,             \* the roster, each member [id, ride, vox_pos]
  handymen,              \* the rosters of the other kinds, each member [id]
  guards,
  entertainers,
  mechanic_requests,     \* rides waiting for a mechanic, oldest first
  wages,                 \* _finances_manager: the PayStaffWages calls of the last month
  hire_log,              \* the ids GenerateID handed out since the registry was reset
  log_base,              \* last_person_id when hire_log was started
  \* save game
  gsts,                  \* the GSTS pattern written by Guests::Save
  saved,                 \* the pool as it was when gsts was written
  staf,                  \* the STAF pattern of the save game
  staf_saved,            \* the registry as it was when staf was written
  rcd,                   \* the RcdFile: fp, the bytes of the file, file_pos, file_size
  removed,               \* the rides whose deletion the staff was notified of
  \* directories
  reader,                \* the DirectoryReader *: at a [dirfp, entry, dpath, fpath], or NULL
  disk,                  \* the directories of the file system and their entries
  streams                \* the directory streams of the C library

guestVars == <<active, free_idx, start_voxel, daily_frac, next_daily_index>>
complaintVars == <<complaint_counter, time_since_complaint>>
worldVars == <<paths, max_guests>>

winVars == <<win_ticks, win_upd, win_stay>>
gapVars == <<since_msg, last_gap>>
staffVars ==
  <<last_person_id, mechanics, handymen, guards, entertainers, mechanic_requests>>
logVars == <<hire_log, log_base>>
staffSide == <<staffVars, wages, logVars>>
saveVars == <<gsts, saved, staf, staf_saved>>
\* What the operations of the pools leave alone but for Staff::NotifyRideDeletion.
dirVars == <<reader, disk, streams>>
sceneVars == <<focus, rcd, removed, dirVars>>

\* What no operation of the guest pool but Save and Load touches.
restVars == <<sceneVars, staffSide, saveVars>>
\* What no operation of the staff registry touches.
guestSide ==
  <<guestVars, complaintVars, worldVars, inbox, winVars, gapVars, sceneVars, days, saveVars>>

vars ==
  <<guestVars, complaintVars, worldVars, inbox, last_op, winVars, gapVars, sceneVars, days,
    staffSide, saveVars>>

(* ------------------------------------------------------------------ *)
(* The world.                                                           *)
(* ------------------------------------------------------------------ *)
\* IsGoodEdgeRoad: the stack at (x, y) holds a valid, flat path.
IsGoodEdgeRoad(x, y, world) ==
  IF x < 0 \/ y < 0 THEN FALSE ELSE <<x, y>> \in world

\* The second loop of FindEdgeRoad, from column/row y on.
RECURSIVE FindEdgeRoadY(_, _)
FindEdgeRoadY(y, world) ==
  LET highest_x == WorldXSize - 1
      highest_y == WorldYSize - 1
  IN IF ~(y < highest_y) THEN <<-1, -1>>
     ELSE IF IsGoodEdgeRoad(0, y, world) THEN <<0, y>>
     ELSE IF IsGoodEdgeRoad(highest_x, y, world) THEN <<highest_x, y>>
     ELSE FindEdgeRoadY(y + 1, world)

\* The first loop of FindEdgeRoad, from x on, falling through to the second.
RECURSIVE FindEdgeRoadX(_, _)
FindEdgeRoadX(x, world) ==
  LET highest_x == WorldXSize - 1
      highest_y == WorldYSize - 1
  IN IF ~(x < highest_x) THEN FindEdgeRoadY(1, world)
     ELSE IF IsGoodEdgeRoad(x, 0, world) THEN <<x, 0>>
     ELSE IF IsGoodEdgeRoad(x, highest_y, world) THEN <<x, highest_y>>
     ELSE FindEdgeRoadX(x + 1, world)

\* FindEdgeRoad without its first loop.
FindEdgeRoadRowsOnly(world) == FindEdgeRoadY(1, world)

FindEdgeRoad(world) == FindEdgeRoadX(1, world)

\* The edge stacks that are no corner: the ones FindEdgeRoad looks at.
EdgeStacks ==
  {<<x, y>> \in (0 .. (WorldXSize - 1)) \X (0 .. (WorldYSize - 1)) :
     \/ (y \in {0, WorldYSize - 1} /\ x > 0 /\ x < WorldXSize - 1)
     \/ (x \in {0, WorldXSize - 1} /\ y > 0 /\ y < WorldYSize - 1)}

(* ------------------------------------------------------------------ *)
(* The free-slot protocol.                                              *)
(* ------------------------------------------------------------------ *)
\* The loop of both FindNextFreeGuest variants: the index it stops at.
RECURSIVE FindNextFreeIndex(_, _)
FindNextFreeIndex(act, idx) ==
  IF idx < GUEST_BLOCK_SIZE
  THEN IF ~act[idx] THEN idx ELSE FindNextFreeIndex(act, idx + 1)
  ELSE idx

\* FindNextFreeGuest that takes free_idx as it stands.
FindNextFreeGuestNoScan(act, fidx) ==
  [free_idx |-> fidx, found |-> fidx < GUEST_BLOCK_SIZE]

\* FindNextFreeGuest(): free_idx afterwards, and the result.
FindNextFreeGuest(act, fidx) ==
  LET stop == FindNextFreeIndex(act, fidx)
  IN [free_idx |-> stop, found |-> stop < GUEST_BLOCK_SIZE]

\* HasFreeGuests() that finds a free guest in any pool.
HasFreeGuestsAlways(act, fidx) == TRUE

\* FindNextFreeGuest() const, which HasFreeGuests() returns.
HasFreeGuests(act, fidx) == FindNextFreeIndex(act, fidx) < GUEST_BLOCK_SIZE

\* CountActiveGuests that forgets the slots below free_idx.
CountActiveGuestsAbove(act, fidx) ==
  Cardinality({i \in Slots : i >= fidx /\ act[i]})

CountActiveGuests(act, fidx) ==
  fidx + Cardinality({i \in Slots : i >= fidx /\ act[i]})

\* AddFree that leaves free_idx where it is.
AddFreeKeep(i, fidx) == fidx

\* AddFree with the higher of the two indices.
AddFreeHigher(i, fidx) == IF i > fidx THEN i ELSE fidx

\* AddFree(g) for the guest of slot i: the new free_idx.
AddFree(i, fidx) == Min(i, fidx)

\* GetFree that does not step past the slot it hands out.
GetFreeNoAdvance(act, fidx) ==
  LET stop == FindNextFreeIndex(act, fidx)
  IN [ok |-> stop < GUEST_BLOCK_SIZE, slot |-> stop, free_idx |-> stop]

\* GetFree(): the slot handed out and free_idx afterwards (asserts found).
GetFree(act, fidx) ==
  LET f == FindNextFreeGuest(act, fidx)
  IN [ok |-> f.found, slot |-> f.free_idx, free_idx |-> f.free_idx + 1]

\* The truth FindNextFreeGuest is measured against.
NumActive(act) == Cardinality({i \in Slots : act[i]})

(* ------------------------------------------------------------------ *)
(* RcdFile: a file read byte by byte. A file is [fp, data, file_pos,    *)
(* file_size]; fp tells whether fopen succeeded, data holds the bytes   *)
(* of the file. A uint32 is held as the 32 bits read as a signed number. *)
(* ------------------------------------------------------------------ *)
\* RcdFile::RcdFile for a file that cannot be opened.
NoFile == [fp |-> FALSE, data |-> <<>>, file_pos |-> 0, file_size |-> 0]

\* RcdFile::RcdFile for a file with the given bytes.
OpenFile(bytes) == [fp |-> TRUE, data |-> bytes, file_pos |-> 0, file_size |-> Len(bytes)]

\* RcdFile::Remaining
Remaining(f) == IF f.file_size >= f.file_pos THEN f.file_size - f.file_pos ELSE 0

\* What fgetc returns, converted to uint8: the byte at the position of the stream,
\* or EOF (-1) as 255 at the end of the file.
FGetC(f) == IF f.file_pos < Len(f.data) THEN f.data[f.file_pos + 1] ELSE 255

\* RcdFile::GetUInt8: the file afterwards and the number read.
GetUInt8(f) == [file |-> [f EXCEPT !.file_pos = @ + 1], val |-> FGetC(f)]

\* GetUInt16 with the first byte taken as the high one.
GetUInt16BigEndian(f) ==
  LET first == GetUInt8(f)
      second == GetUInt8(first.file)
  IN [file |-> second.file, val |-> first.val * 256 + second.val]

\* RcdFile::GetUInt16: val | (GetUInt8() << 8).
GetUInt16(f) ==
  LET first == GetUInt8(f)
      second == GetUInt8(first.file)
  IN [file |-> second.file, val |-> first.val + second.val * 256]

\* x << 16 for a uint16 x, as the 32 bits it leaves.
ShiftLeft16(x) == IF x >= 32768 THEN (x - 65536) * 65536 ELSE x * 65536

\* RcdFile::GetUInt32: val | (GetUInt16() << 16).
GetUInt32(f) ==
  LET first == GetUInt16(f)
      second == GetUInt16(first.file)
  IN [file |-> second.file, val |-> first.val + ShiftLeft16(second.val)]

\* RcdFile::GetBlob: file_pos moves on by length whatever fread delivers; the bytes
\* are those of the file when all of them are there.
GetBlob(f, length) ==
  LET ok == f.file_pos + length <= Len(f.data)
  IN [file |-> [f EXCEPT !.file_pos = @ + length],
      ok |-> ok,
      bytes |-> IF ok THEN SubSeq(f.data, f.file_pos + 1, f.file_pos + length) ELSE <<>>]

\* RcdFile::CheckVersion
CheckVersion(f, ver) ==
  LET read == GetUInt32(f)
  IN [file |-> read.file, ok |-> read.val = ver]

\* The C string a char buffer holds: its bytes up to the first NUL.
RECURSIVE CString(_)
CString(bytes) ==
  IF bytes = <<>> \/ Head(bytes) = 0 THEN <<>> ELSE <<Head(bytes)>> \o CString(Tail(bytes))

\* strcmp(a, b) == 0
StrEqual(a, b) == CString(a) = CString(b)

\* RcdFile::CheckFileHeader: the file afterwards and the result.
CheckFileHeader(f, hdr_name, version) ==
  IF ~f.fp THEN [file |-> f, ok |-> FALSE]
  ELSE IF Remaining(f) < 8 THEN [file |-> f, ok |-> FALSE]
  ELSE LET blob == GetBlob(f, 4)
           name == blob.bytes \o <<0>>
       IN IF ~StrEqual(name, hdr_name)
            THEN [file |-> blob.file, ok |-> FALSE]
            ELSE CheckVersion(blob.file, version)

(* ------------------------------------------------------------------ *)
(* UnixDirectoryReader: the entries of a directory, one by one. A path  *)
(* is a sequence of characters. A reader is [dirfp, entry, dpath,       *)
(* fpath]; a DIR * is a number, NULL being 0. The C library's side is   *)
(* [open, fault, peak]: open[h] is the stream behind the DIR * h        *)
(* ([path, pos]) or Closed; fault is set by a closedir or readdir on a  *)
(* DIR * that is not open, after which nothing the program does is      *)
(* defined; peak is the largest number of streams open at one time.     *)
(* A disk maps the path of a directory to its entries, in the order     *)
(* readdir returns them, each [d_name, kind].                           *)
(* ------------------------------------------------------------------ *)
MAX_PATH == 512

\* The DIR * values opendir hands out.
MaxStreams == 2
Handles == 1..MaxStreams

NULL == 0

\* A pointer that is NULL, and one that points at x.
Null == [null |-> TRUE]
Ptr(x) == [null |-> FALSE, at |-> x]

Closed == [path |-> <<>>, pos |-> -1]

NoStreams == [open |-> [h \in Handles |-> Closed], fault |-> FALSE, peak |-> 0]

OpenStreams(s) == {h \in Handles : s.open[h] # Closed}

\* What stat finds at an entry: a regular file, a directory, or nothing it can follow.
EntryKinds == {"reg", "dir", "gone"}

\* opendir: NULL, or a DIR * that is not in use for a directory that exists.
opendir(s, d, path) ==
  {[streams |-> s, val |-> NULL]} \cup
    (IF path \in DOMAIN d
       THEN {[streams |-> [s EXCEPT !.open[h] = [path |-> path, pos |-> 0],
                                    !.peak = IF Cardinality(OpenStreams(s) \cup {h}) > @
                                               THEN Cardinality(OpenStreams(s) \cup {h}) ELSE @],
              val |-> h] : h \in Handles \ OpenStreams(s)}
       ELSE {})

\* readdir: the next entry of the stream, NULL at the end.
readdir(s, d, h) ==
  IF s.open[h] = Closed THEN [streams |-> [s EXCEPT !.fault = TRUE], val |-> Null]
  ELSE LET st == s.open[h]
       IN IF st.pos < Len(d[st.path])
            THEN [streams |-> [s EXCEPT !.open[h].pos = @ + 1],
                  val |-> Ptr([d_name |-> d[st.path][st.pos + 1].d_name])]
            ELSE [streams |-> s, val |-> Null]

\* closedir
closedir(s, h) ==
  IF s.open[h] = Closed THEN [s EXCEPT !.fault = TRUE] ELSE [s EXCEPT !.open[h] = Closed]

\* stat: [ret, st_mode], ret 0 when the path leads somewhere.
stat(d, path) ==
  IF path \in DOMAIN d THEN [ret |-> 0, st_mode |-> "dir"]
  ELSE LET hits == {e \in UNION {{[dir |-> p, i |-> i] : i \in 1..Len(d[p])} : p \in DOMAIN d} :
                      path = e.dir \o <<"/">> \o d[e.dir][e.i].d_name}
       IN IF hits = {} THEN [ret |-> -1, st_mode |-> "gone"]
          ELSE LET e == CHOOSE e \in hits : TRUE
               IN IF d[e.dir][e.i].kind = "gone" THEN [ret |-> -1, st_mode |-> "gone"]
                  ELSE [ret |-> 0, st_mode |-> d[e.dir][e.i].kind]

\* SafeStrncpy(dest, src, size): the string, cut to fit size bytes with its NUL.
SafeStrncpy(src, size) == SubSeq(src, 1, Min(Len(src), size - 1))

\* snprintf(fpath, size, "%s/%s", dpath, d_name); fpath[size - 1] = '\0'
SnPrintfPath(size, dpath, d_name) ==
  LET whole == dpath \o <<"/">> \o d_name
  IN SubSeq(whole, 1, Min(Len(whole), size - 1))

\* The members the constructor leaves as they were in memory.
Indeterminate ==
  {[dirfp |-> NULL, entry |-> Null, dpath |-> <<>>, fpath |-> <<>>],
   [dirfp |-> MaxStreams, entry |-> Ptr([d_name |-> <<"1">>]), dpath |-> <<"a">>,
    fpath |-> <<"a", "/", "1">>]}

\* UnixDirectoryReader::UnixDirectoryReader, in memory holding mem.
UnixDirectoryReader(mem) == [mem EXCEPT !.dirfp = NULL]

\* ClosePath that leaves dirfp pointing at the stream it closed.
ClosePathKeepPointer(r, s) ==
  [reader |-> r, streams |-> IF r.dirfp # NULL THEN closedir(s, r.dirfp) ELSE s]

\* UnixDirectoryReader::ClosePath: the reader and the streams afterwards.
ClosePath(r, s) ==
  [reader |-> [r EXCEPT !.dirfp = NULL],
   streams |-> IF r.dirfp # NULL THEN closedir(s, r.dirfp) ELSE s]

\* UnixDirectoryReader::~UnixDirectoryReader
DestroyReader(r, s) == ClosePath(r, s)

\* UnixDirectoryReader::OpenPath: the outcomes, one for each outcome of opendir.
OpenPath(r, s, d, path) ==
  LET c == IF r.dirfp # NULL THEN ClosePath(r, s) ELSE [reader |-> r, streams |-> s]
      dpath == SafeStrncpy(path, MAX_PATH)
  IN {[reader |-> [c.reader EXCEPT !.dpath = dpath, !.dirfp = o.val], streams |-> o.streams] :
        o \in opendir(c.streams, d, dpath)}

\* UnixDirectoryReader::NextEntry: the reader and the streams afterwards, and the result.
NextEntry(r, s, d) ==
  IF r.dirfp = NULL THEN [reader |-> r, streams |-> s, val |-> Null]
  ELSE LET rd == readdir(s, d, r.dirfp)
           r1 == [r EXCEPT !.entry = rd.val]
       IN IF rd.val.null
            THEN LET c == ClosePath(r1, rd.streams)
                 IN [reader |-> c.reader, streams |-> c.streams, val |-> Null]
            ELSE LET fpath == SnPrintfPath(MAX_PATH, r1.dpath, rd.val.at.d_name)
                 IN [reader |-> [r1 EXCEPT !.fpath = fpath], streams |-> rd.streams,
                     val |-> Ptr(fpath)]

S_ISREG(st_mode) == st_mode = "reg"
S_ISDIR(st_mode) == st_mode = "dir"

\* UnixDirectoryReader::EntryIsFile
EntryIsFile(r, d) ==
  LET st == stat(d, r.fpath)
  IN IF st.ret # 0 THEN FALSE ELSE S_ISREG(st.st_mode)

\* UnixDirectoryReader::EntryIsDirectory
EntryIsDirectory(r, d) ==
  LET st == stat(d, r.fpath)
  IN IF st.ret # 0 THEN FALSE ELSE S_ISDIR(st.st_mode)

\* DirectoryReader::NextFile: NextEntry until it returns NULL or a file.
RECURSIVE NextFile(_, _, _)
NextFile(r, s, d) ==
  LET n == NextEntry(r, s, d)
  IN IF ~n.val.null /\ ~EntryIsFile(n.reader, d) THEN NextFile(n.reader, n.streams, d) ELSE n

\* MakeDirectoryReader
MakeDirectoryReader(mem) == Ptr(UnixDirectoryReader(mem))

\* A reader nobody uses, on a disk without directories.
DirIdle ==
  /\ reader \in {MakeDirectoryReader(mem) : mem \in {m \in Indeterminate : m.dirfp = NULL}}
  /\ disk = <<>>
  /\ streams = NoStreams

(* ------------------------------------------------------------------ *)
(* Guests: construction.                                                *)
(* ------------------------------------------------------------------ *)
FreshCounters == [K \in Channels |-> 0]
FreshTimers == [K \in Channels |-> COMPLAINT_TIMEOUT]

GuestsInit ==
  /\ active = [i \in Slots |-> FALSE]
  /\ free_idx = 0
  /\ start_voxel = <<-1, -1>>
  /\ daily_frac = 0
  /\ next_daily_index = 0
  /\ complaint_counter = FreshCounters
  /\ time_since_complaint = FreshTimers

\* No pattern has been written.
NoPattern == [name |-> "", version |-> 0, data |-> <<>>]

\* Staff::Staff sets nothing: the rosters and the queue are empty, and last_person_id
\* of the global _staff is zero until Staff::Uninitialize or Staff::Load sets it.
StaffInit ==
  /\ last_person_id = 0
  /\ log_base = 0
  /\ mechanics = <<>>
  /\ handymen = <<>>
  /\ guards = <<>>
  /\ entertainers = <<>>
  /\ mechanic_requests = <<>>

\* The collaborators and the observers at the start of a game.
WorldInit ==
  /\ paths \in {w \in SUBSET EdgeStacks : Cardinality(w) <= MaxPaths}
  /\ max_guests \in {0, GUEST_BLOCK_SIZE - 1, GUEST_BLOCK_SIZE + 1}
  /\ inbox = <<>>

\* A world with one road at the edge and room for every guest of the block.
OneRoadInit ==
  /\ paths = {<<1, 0>>}
  /\ max_guests \in {GUEST_BLOCK_SIZE - 1, GUEST_BLOCK_SIZE + 1}
  /\ inbox = <<>>

ObserverStart ==
  /\ removed = {}
  /\ last_op = [op |-> "init", slot |-> -1, at |-> <<-1, -1>>, arg |-> FALSE]
  /\ win_ticks = -1
  /\ win_upd = [i \in Slots |-> 0]
  /\ win_stay = [i \in Slots |-> FALSE]
  /\ since_msg = [K \in Channels |-> -1]
  /\ last_gap = [K \in Channels |-> -1]
  /\ focus \in Channels
  /\ days = 0
  /\ hire_log = <<>>
  /\ wages = <<>>
  /\ gsts = NoPattern
  /\ staf = NoPattern
  /\ staf_saved = NoPattern
  /\ saved = NoPattern

\* No RcdFile is being read.
ObserverInit == ObserverStart /\ rcd = NoFile /\ DirIdle

(* ------------------------------------------------------------------ *)
(* The observation window over DoTick calls.                            *)
(* ------------------------------------------------------------------ *)
WinOpen == win_ticks >= 0 /\ win_ticks < TICK_COUNT_PER_DAY

\* A slot stays in the window only while it is active after every operation.
WinStay(act) ==
  IF WinOpen THEN [i \in Slots |-> win_stay[i] /\ act[i]] ELSE win_stay

\* Open a window at the current cursor position.
StartWindow ==
  /\ win_ticks \in {-1, TICK_COUNT_PER_DAY}
  /\ win_ticks' = 0
  /\ win_upd' = [i \in Slots |-> 0]
  /\ win_stay' = active
  /\ last_op' = [op |-> "StartWindow", slot |-> -1, at |-> <<-1, -1>>, arg |-> FALSE]
  /\ UNCHANGED <<guestVars, complaintVars, worldVars, inbox, gapVars, days, restVars>>

(* ------------------------------------------------------------------ *)
(* Guests: the operations.                                              *)
(* ------------------------------------------------------------------ *)
\* for (i = from; i < GUEST_BLOCK_SIZE; i++) if active and gone: DeActivate, AddFree.
RECURSIVE ReleaseLoop(_, _, _, _)
ReleaseLoop(i, act, fidx, gone) ==
  IF i >= GUEST_BLOCK_SIZE THEN [active |-> act, free_idx |-> fidx]
  ELSE IF act[i] /\ gone[i]
       THEN ReleaseLoop(i + 1, [act EXCEPT ![i] = FALSE], AddFree(i, fidx), gone)
       ELSE ReleaseLoop(i + 1, act, fidx, gone)

\* Guests::Uninitialize
GuestsUninitialize ==
  LET r == ReleaseLoop(0, active, free_idx, [i \in Slots |-> TRUE])
  IN /\ active' = r.active
     /\ free_idx' = r.free_idx
     /\ start_voxel' = <<-1, -1>>
     /\ daily_frac' = 0
     /\ next_daily_index' = 0
     /\ complaint_counter' = FreshCounters
     /\ time_since_complaint' = FreshTimers
     /\ last_op' = [op |-> "Uninitialize", slot |-> -1, at |-> <<-1, -1>>, arg |-> FALSE]
     /\ win_stay' = WinStay(r.active)
     /\ UNCHANGED <<worldVars, inbox, win_ticks, win_upd, gapVars, days, restVars>>

\* A uint32 is held as its value v when v < 2^31 and as v - 2^32 otherwise, the 32 bits
\* read as a signed number. AddU32 is the sum modulo 2^32 of a uint32 and an int.
INT32_MAX == 2147483647

AddU32(t, d) ==
  IF t >= 0 /\ d > INT32_MAX - t
    THEN (t - INT32_MAX - 1) + (d - INT32_MAX - 1)
    ELSE IF t < 0 /\ d < (-INT32_MAX - 1) - t
           THEN (t + INT32_MAX + 1) + (d + INT32_MAX + 1)
           ELSE t + d

\* a > b for two uint32, b below 2^31.
GreaterU32(a, b) == a < 0 \/ a > b

\* OnAnimate that advances the hunger timer only.
AdvanceHungerTimer(timers, delay) == [timers EXCEPT !["hunger"] = @ + delay]

\* The timers after OnAnimate(delay) (uint32 += int).
AdvanceTimers(timers, delay) == [K \in Channels |-> AddU32(timers[K], delay)]

\* The delays summed since each channel's last message, kept up to the timeout.
AdvanceSince(since, delay) ==
  [K \in Channels |->
     IF since[K] = -1 THEN -1 ELSE Min(since[K] + delay, COMPLAINT_TIMEOUT + 1)]

\* The slots whose guest the loop of Guests::OnAnimate animates, in the order of the
\* calls: the loop goes from slot i upwards and passes over the inactive slots.
RECURSIVE AnimateCalls(_, _)
AnimateCalls(i, act) ==
  IF i >= GUEST_BLOCK_SIZE THEN <<>>
  ELSE IF ~act[i] THEN AnimateCalls(i + 1, act)
       ELSE <<i>> \o AnimateCalls(i + 1, act)

\* What the observer notes of an OnAnimate call: the guests' OnAnimate calls it made.
AnimateOp(calls) ==
  [op |-> "OnAnimate", slot |-> -1, at |-> <<-1, -1>>, arg |-> FALSE, animated |-> calls]

\* Guests::OnAnimate(delay); res[i] is what guest i's OnAnimate returns.
GuestsOnAnimate(delay, res) ==
  LET r == ReleaseLoop(0, active, free_idx, [i \in Slots |-> res[i] # "OAR_OK"])
  IN /\ time_since_complaint' = AdvanceTimers(time_since_complaint, delay)
     /\ active' = r.active
     /\ free_idx' = r.free_idx
     /\ since_msg' = AdvanceSince(since_msg, delay)
     /\ last_op' = AnimateOp(AnimateCalls(0, active))
     /\ win_stay' = WinStay(r.active)
     /\ UNCHANGED <<start_voxel, daily_frac, next_daily_index, complaint_counter,
                    worldVars, inbox, win_ticks, win_upd, last_gap, days, restVars>>

\* end_index computed one tick ahead, which ends the day a tick early.
EndIndexAhead(frac) ==
  Min(((frac + 1) * GUEST_BLOCK_SIZE) \div TICK_COUNT_PER_DAY, GUEST_BLOCK_SIZE)

\* end_index rounded up instead of down.
EndIndexCeil(frac) ==
  Min((frac * GUEST_BLOCK_SIZE + TICK_COUNT_PER_DAY - 1) \div TICK_COUNT_PER_DAY,
      GUEST_BLOCK_SIZE)

\* end_index of DoTick for the incremented daily_frac.
EndIndex(frac) ==
  Min((frac * GUEST_BLOCK_SIZE) \div TICK_COUNT_PER_DAY, GUEST_BLOCK_SIZE)

\* The same expression for a block of `block` guests and `ticks` ticks per day.
EndIndexOf(frac, block, ticks) == Min((frac * block) \div ticks, block)

\* daily_frac and next_daily_index after one DoTick: the increment, the loop that
\* runs next_daily_index up to end_index, and the reset at the end of the block.
TickCursor(c, block, ticks) ==
  LET frac == U16(c.daily_frac + 1)
      end_index == EndIndexOf(frac, block, ticks)
      idx == IF c.next_daily_index < end_index THEN end_index ELSE c.next_daily_index
  IN IF idx >= block
     THEN [daily_frac |-> 0, next_daily_index |-> 0]
     ELSE [daily_frac |-> frac, next_daily_index |-> idx]

\* The cursor c after t more DoTick calls.
RECURSIVE CursorFrom(_, _, _, _)
CursorFrom(c, t, block, ticks) ==
  IF t = 0
  THEN c
  ELSE LET n == TickCursor(c, block, ticks)
       IN IF n.daily_frac >= 0 THEN CursorFrom(n, t - 1, block, ticks) ELSE n

\* The cursor after t DoTick calls of a day, computed fifty calls at a time.
RECURSIVE CursorAfter(_, _, _)
CursorAfter(t, block, ticks) ==
  IF t <= 50
  THEN CursorFrom([daily_frac |-> 0, next_daily_index |-> 0], t, block, ticks)
  ELSE CursorFrom(CursorAfter(t - 50, block, ticks), 50, block, ticks)

\* The while loop of DoTick; upd[i] is what guest i's DailyUpdate returns,
\* called collects the slots DailyUpdate was invoked on.
RECURSIVE DailyLoop(_, _, _, _, _, _)
DailyLoop(idx, end_index, act, fidx, upd, called) ==
  IF ~(idx < end_index)
  THEN [active |-> act, free_idx |-> fidx, next_daily_index |-> idx, called |-> called]
  ELSE IF act[idx]
       THEN IF ~upd[idx]
            THEN DailyLoop(idx + 1, end_index, [act EXCEPT ![idx] = FALSE],
                           AddFree(idx, fidx), upd, called \cup {idx})
            ELSE DailyLoop(idx + 1, end_index, act, fidx, upd, called \cup {idx})
       ELSE DailyLoop(idx + 1, end_index, act, fidx, upd, called)

\* Guests::DoTick
GuestsDoTick(upd) ==
  LET frac == U16(daily_frac + 1)
      r == DailyLoop(next_daily_index, EndIndex(frac), active, free_idx, upd, {})
      wrap == r.next_daily_index >= GUEST_BLOCK_SIZE
  IN /\ active' = r.active
     /\ free_idx' = r.free_idx
     /\ daily_frac' = IF wrap THEN 0 ELSE frac
     /\ next_daily_index' = IF wrap THEN 0 ELSE r.next_daily_index
     /\ last_op' = [op |-> "DoTick", slot |-> -1, at |-> <<-1, -1>>, arg |-> FALSE]
     /\ win_ticks' = IF WinOpen THEN win_ticks + 1 ELSE win_ticks
     /\ win_upd' = IF WinOpen
                    THEN [i \in Slots |->
                            IF i \in r.called THEN Min(win_upd[i] + 1, 2) ELSE win_upd[i]]
                    ELSE win_upd
     /\ win_stay' = WinStay(r.active)
     /\ UNCHANGED <<start_voxel, complaintVars, worldVars, inbox, gapVars, days, restVars>>

\* The body of Guests::OnNewDay: the pool afterwards, the slot activated (-1: none)
\* and whether the assertion of every GetFree() it called held.
\* rng is what rnd.Success1024 returns when it is asked.
OnNewDay(act, fidx, sv, world, maxg, rng) ==
  LET same == [active |-> act, free_idx |-> fidx, start_voxel |-> sv, slot |-> -1,
               assertion |-> TRUE]
      found == FindEdgeRoad(world)
      sv2 == IF IsGoodEdgeRoad(sv[1], sv[2], world) THEN sv ELSE found
      g == GetFree(act, fidx)
  IN IF CountActiveGuests(act, fidx) >= maxg THEN same
     ELSE IF ~rng THEN same
     ELSE IF ~IsGoodEdgeRoad(sv2[1], sv2[2], world) THEN [same EXCEPT !.start_voxel = sv2]
     ELSE IF ~HasFreeGuests(act, fidx) THEN [same EXCEPT !.start_voxel = sv2]
     ELSE [active |-> [act EXCEPT ![g.slot] = TRUE], free_idx |-> g.free_idx,
           start_voxel |-> sv2, slot |-> g.slot, assertion |-> g.ok]

\* Guests::OnNewDay
GuestsOnNewDay(rng) ==
  LET r == OnNewDay(active, free_idx, start_voxel, paths, max_guests, rng)
  IN /\ active' = r.active
     /\ free_idx' = r.free_idx
     /\ start_voxel' = r.start_voxel
     /\ last_op' = [op |-> "OnNewDay", slot |-> r.slot, at |-> r.start_voxel, arg |-> rng,
                     assertion |-> r.assertion]
     /\ win_stay' = WinStay(r.active)
     /\ UNCHANGED <<daily_frac, next_daily_index, complaintVars, worldVars, inbox,
                    win_ticks, win_upd, gapVars, restVars>>

\* The player builds or removes a path on an edge stack.
WorldChange(c) ==
  /\ paths' = IF c \in paths THEN paths \ {c} ELSE paths \cup {c}
  /\ last_op' = [op |-> "WorldChange", slot |-> -1, at |-> <<-1, -1>>, arg |-> FALSE]
  /\ UNCHANGED <<guestVars, complaintVars, max_guests, inbox, winVars, gapVars, days,
                 restVars>>

(* ------------------------------------------------------------------ *)
(* The complaint channels.                                              *)
(* ------------------------------------------------------------------ *)
\* The test with the timer compared by >= instead of >.
ComplainFiresAtTimeout(K, timer, counter) ==
  timer >= COMPLAINT_TIMEOUT /\ counter >= COMPLAINT_THRESHOLD(K)

\* The test of Complain<K>() on the timer and the incremented counter.
ComplainFires(K, timer, counter) ==
  GreaterU32(timer, COMPLAINT_TIMEOUT) /\ counter >= COMPLAINT_THRESHOLD(K)

\* Guests::ComplainHunger .. ComplainVandalism, which differ in the channel only.
Complain(K) ==
  LET counter == U16(complaint_counter[K] + 1)
      fires == ComplainFires(K, time_since_complaint[K], counter)
  IN /\ complaint_counter' = [complaint_counter EXCEPT ![K] = IF fires THEN 0 ELSE counter]
     /\ time_since_complaint' =
          [time_since_complaint EXCEPT ![K] = IF fires THEN 0 ELSE @]
     /\ inbox' = IF fires THEN Append(inbox, GUI_MESSAGE(K)) ELSE inbox
     /\ since_msg' = IF fires THEN [since_msg EXCEPT ![K] = 0] ELSE since_msg
     /\ last_gap' = IF fires THEN [last_gap EXCEPT ![K] = since_msg[K]] ELSE last_gap
     /\ last_op' = [op |-> "Complain", slot |-> -1, at |-> <<-1, -1>>, arg |-> fires,
                     channel |-> K]
     /\ UNCHANGED <<guestVars, worldVars, winVars, days, restVars>>

ComplainHunger == Complain("hunger")
ComplainThirst == Complain("thirst")
ComplainWaste == Complain("waste")
ComplainLitter == Complain("litter")
ComplainVandalism == Complain("vandalism")

(* ------------------------------------------------------------------ *)
(* The guest pool under its operations.                                 *)
(* ------------------------------------------------------------------ *)
PoolDelays == {0, 1}

\* The timers stay within the range the model follows.
TimersWithin(delay) ==
  \A K \in Channels : time_since_complaint[K] + delay <= COMPLAINT_TIMEOUT + MaxOverTime

\* What the guests' OnAnimate calls return: OnAnimate is called on active guests only.
AnimateOutcomes ==
  {[i \in Slots |-> IF i \in gone THEN bad ELSE "OAR_OK"] :
     gone \in SUBSET {i \in Slots : active[i]}, bad \in AnimateResults \ {"OAR_OK"}}

\* What the guests' DailyUpdate calls return.
DailyOutcomes ==
  {[i \in Slots |-> i \notin leave] : leave \in SUBSET {i \in Slots : active[i]}}

PoolOnAnimate ==
  \E delay \in PoolDelays, res \in AnimateOutcomes :
    TimersWithin(delay) /\ GuestsOnAnimate(delay, res)

\* OnAnimate with no time passed.
SpawnOnAnimate == \E res \in AnimateOutcomes : GuestsOnAnimate(0, res)

PoolDoTick == \E upd \in DailyOutcomes : GuestsDoTick(upd)

PoolOnNewDay == \E rng \in BOOLEAN : GuestsOnNewDay(rng) /\ UNCHANGED days

PoolWorldChange ==
  \E c \in EdgeStacks :
    /\ c \in paths \/ Cardinality(paths) < MaxPaths
    /\ WorldChange(c)

Init == GuestsInit /\ OneRoadInit /\ ObserverInit /\ StaffInit /\ focus = "hunger"

Next ==
  \/ PoolOnNewDay
  \/ PoolOnAnimate
  \/ PoolDoTick
  \/ GuestsUninitialize

Spec == Init /\ [][Next]_vars

(* ------------------------------------------------------------------ *)
(* The daily cursor watched through windows of TICK_COUNT_PER_DAY calls *)
(* of DoTick, opened at any cursor position.                            *)
(* ------------------------------------------------------------------ *)
InitTick ==
  /\ GuestsInit
  /\ paths = {<<1, 0>>}
  /\ max_guests = GUEST_BLOCK_SIZE + 1
  /\ inbox = <<>>
  /\ ObserverInit
  /\ StaffInit
  /\ focus = "hunger"

NextTick ==
  \/ PoolDoTick
  \/ StartWindow
  \/ PoolOnNewDay
  \/ SpawnOnAnimate
  \/ GuestsUninitialize

SpecTick == InitTick /\ [][NextTick]_vars

(* ------------------------------------------------------------------ *)
(* Spawning in a world whose edge paths the player builds and removes.  *)
(* ------------------------------------------------------------------ *)
InitSpawn == GuestsInit /\ WorldInit /\ ObserverInit /\ StaffInit /\ focus = "hunger"

NextSpawn ==
  \/ PoolOnNewDay
  \/ SpawnOnAnimate
  \/ GuestsUninitialize
  \/ PoolWorldChange

SpecSpawn == InitSpawn /\ [][NextSpawn]_vars

(* ------------------------------------------------------------------ *)
(* The spawn scenario: a road at the edge, the RNG always succeeding,   *)
(* nothing but OnNewDay.                                                *)
(* ------------------------------------------------------------------ *)
InitDays ==
  /\ GuestsInit
  /\ paths \in (SUBSET EdgeStacks) \ {{}}
  /\ max_guests \in 0 .. GUEST_BLOCK_SIZE
  /\ inbox = <<>>
  /\ ObserverInit
  /\ StaffInit
  /\ focus = "hunger"

ScenarioOnNewDay ==
  /\ days < GUEST_BLOCK_SIZE + 2
  /\ GuestsOnNewDay(TRUE)
  /\ days' = days + 1

NextDays == ScenarioOnNewDay

SpecDays == InitDays /\ [][NextDays]_vars

(* ------------------------------------------------------------------ *)
(* An RcdFile under GetUInt8 and CheckFileHeader: files that hold a     *)
(* header, whole or cut short, after at most MaxPrefix other bytes.     *)
(* ------------------------------------------------------------------ *)
MaxPrefix == 1
MaxOverRead == 1

\* The header names asked for: four characters each.
HeaderNames == {<<1, 1, 1, 1>>, <<1, 255, 1, 255>>}

\* The four bytes a file holds where the name is expected.
FileNames == HeaderNames \cup {<<1, 1, 0, 1>>, <<1, 1, 1, 255>>}

\* The four bytes a file holds where the version is expected.
VersionBytes ==
  {<<1, 0, 0, 0>>, <<0, 1, 0, 0>>, <<0, 0, 1, 0>>, <<1, 0, 0, 255>>, <<255, 255, 255, 255>>}

\* The versions asked for: 1, 2^8, 2^16 and 2^32 - 1.
Versions == {1, 256, 65536, -1}

RcdFiles ==
  {NoFile} \cup
    UNION {{OpenFile(SubSeq([i \in 1..pre |-> 1] \o n \o v, 1, k)) :
              n \in FileNames, v \in VersionBytes, k \in 0..(pre + 8)} :
             pre \in 0..MaxPrefix}

RcdOp(name, ok, hdr_name, version) ==
  [op |-> name, slot |-> -1, at |-> <<-1, -1>>, arg |-> ok, hdr_name |-> hdr_name,
   version |-> version]

RcdGetUInt8 ==
  /\ rcd.fp
  /\ rcd.file_pos < rcd.file_size + MaxOverRead
  /\ rcd' = GetUInt8(rcd).file
  /\ last_op' = RcdOp("GetUInt8", FALSE, <<>>, 0)
  /\ UNCHANGED <<guestVars, complaintVars, worldVars, inbox, winVars, gapVars, focus, days,
                 staffSide, saveVars, removed, dirVars>>

RcdCheckFileHeader ==
  \E hdr_name \in HeaderNames, version \in Versions :
    LET r == CheckFileHeader(rcd, hdr_name, version)
    IN /\ rcd' = r.file
       /\ last_op' = RcdOp("CheckFileHeader", r.ok, hdr_name, version)
       /\ UNCHANGED <<guestVars, complaintVars, worldVars, inbox, winVars, gapVars, focus,
                      days, staffSide, saveVars, removed, dirVars>>

InitRcd ==
  /\ GuestsInit
  /\ paths = {}
  /\ max_guests = 0
  /\ inbox = <<>>
  /\ ObserverStart
  /\ StaffInit
  /\ focus = "hunger"
  /\ rcd \in RcdFiles
  /\ DirIdle

NextRcd ==
  \/ RcdGetUInt8
  \/ RcdCheckFileHeader

SpecRcd == InitRcd /\ [][NextRcd]_vars

(* ------------------------------------------------------------------ *)
(* A directory reader in use: directory "a" holds at most MaxEntries    *)
(* entries of any kind, directory "b" holds "." and a file, and there   *)
(* is no directory "x". The reader is made, used and deleted.           *)
(* ------------------------------------------------------------------ *)
MaxEntries == 3

DirPaths == {<<"a">>, <<"b">>, <<"x">>}

Digits == <<"1", "2", "3", "4", "5", "6", "7", "8", "9">>

\* The entries of a directory with the given kinds, named "1", "2", ...
Listing(kinds) == [i \in 1..Len(kinds) |-> [d_name |-> <<Digits[i]>>, kind |-> kinds[i]]]

Disks ==
  {[p \in {<<"a">>, <<"b">>} |->
      IF p = <<"a">> THEN Listing(kinds)
      ELSE <<[d_name |-> <<".">>, kind |-> "dir"], [d_name |-> <<"f">>, kind |-> "reg"]>>] :
     kinds \in UNION {[1..n -> EntryKinds] : n \in 0..MaxEntries}}

\* path is the directory asked for, result what the operation returned.
DirOp(name, path, result) ==
  [op |-> name, slot |-> -1, at |-> <<-1, -1>>, arg |-> FALSE, path |-> path,
   result |-> result]

DirRest ==
  <<guestVars, complaintVars, worldVars, inbox, winVars, gapVars, focus, rcd, removed, days,
    staffSide, saveVars>>

\* Nothing is defined once a stream was used after it was closed.
DirDefined == ~reader.null /\ ~streams.fault

DirMake ==
  /\ reader.null
  /\ reader' \in {MakeDirectoryReader(mem) : mem \in Indeterminate}
  /\ last_op' = DirOp("MakeDirectoryReader", <<>>, Null)
  /\ UNCHANGED <<disk, streams, DirRest>>

DirDelete ==
  /\ DirDefined
  /\ reader' = Null
  /\ streams' = DestroyReader(reader.at, streams).streams
  /\ last_op' = DirOp("delete", <<>>, Null)
  /\ UNCHANGED <<disk, DirRest>>

DirOpenPath ==
  /\ DirDefined
  /\ \E path \in DirPaths :
       \E o \in OpenPath(reader.at, streams, disk, path) :
         /\ reader' = Ptr(o.reader)
         /\ streams' = o.streams
         /\ last_op' = DirOp("OpenPath", path, Null)
  /\ UNCHANGED <<disk, DirRest>>

DirNextEntry ==
  /\ DirDefined
  /\ LET n == NextEntry(reader.at, streams, disk)
     IN /\ reader' = Ptr(n.reader)
        /\ streams' = n.streams
        /\ last_op' = DirOp("NextEntry", <<>>, n.val)
  /\ UNCHANGED <<disk, DirRest>>

DirNextFile ==
  /\ DirDefined
  /\ LET n == NextFile(reader.at, streams, disk)
     IN /\ reader' = Ptr(n.reader)
        /\ streams' = n.streams
        /\ last_op' = DirOp("NextFile", <<>>, n.val)
  /\ UNCHANGED <<disk, DirRest>>

DirClosePath ==
  /\ DirDefined
  /\ LET c == ClosePath(reader.at, streams)
     IN /\ reader' = Ptr(c.reader)
        /\ streams' = c.streams
        /\ last_op' = DirOp("ClosePath", <<>>, Null)
  /\ UNCHANGED <<disk, DirRest>>

InitDir ==
  /\ GuestsInit
  /\ paths = {}
  /\ max_guests = 0
  /\ inbox = <<>>
  /\ ObserverStart
  /\ StaffInit
  /\ focus = "hunger"
  /\ rcd = NoFile
  /\ reader \in {MakeDirectoryReader(mem) : mem \in Indeterminate}
  /\ disk \in Disks
  /\ streams = NoStreams

NextDir ==
  \/ DirMake
  \/ DirDelete
  \/ DirOpenPath
  \/ DirNextEntry
  \/ DirNextFile
  \/ DirClosePath

SpecDir == InitDir /\ [][NextDir]_vars

(* ------------------------------------------------------------------ *)
(* The complaint channels under Complain<K>() and OnAnimate: the guests *)
(* of one channel (focus) keep complaining, those of the next channel   *)
(* complain now and then.                                               *)
(* ------------------------------------------------------------------ *)
ComplainDelays == {0, 1, COMPLAINT_TIMEOUT}

NextChannel(K) ==
  CASE K = "hunger"    -> "thirst"
    [] K = "thirst"    -> "waste"
    [] K = "waste"     -> "litter"
    [] K = "litter"    -> "vandalism"
    [] K = "vandalism" -> "hunger"

\* The range of counters, timers and inbox the model follows.
CanComplain(K) ==
  /\ \/ K = focus
     \/ K = NextChannel(focus) /\ complaint_counter[K] < MaxStray
  /\ complaint_counter[K] < COMPLAINT_THRESHOLD(K) + MaxOverCount
  /\ Len(inbox) < MaxInbox

InitComplain ==
  /\ GuestsInit
  /\ paths = {}
  /\ max_guests = 0
  /\ inbox = <<>>
  /\ ObserverInit
  /\ StaffInit

\* The timer values the model follows: up to MaxOverTime past 0 and past the timeout.
FollowedTime(t) ==
  t <= COMPLAINT_TIMEOUT + MaxOverTime /\ t % COMPLAINT_TIMEOUT <= MaxOverTime

ComplainOnAnimate ==
  \E delay \in ComplainDelays :
    /\ FollowedTime(time_since_complaint[focus] + delay)
    /\ GuestsOnAnimate(delay, [i \in Slots |-> "OAR_OK"])

NextComplain ==
  \/ CanComplain("hunger") /\ ComplainHunger
  \/ CanComplain("thirst") /\ ComplainThirst
  \/ CanComplain("waste") /\ ComplainWaste
  \/ CanComplain("litter") /\ ComplainLitter
  \/ CanComplain("vandalism") /\ ComplainVandalism
  \/ ComplainOnAnimate

SpecComplain == InitComplain /\ [][NextComplain]_vars

(* ------------------------------------------------------------------ *)
(* A problem that lasts: hungry guests keep complaining and the game    *)
(* keeps animating, until the first message about hunger is sent. One   *)
(* step of LiveAnimate stands for the OnAnimate calls of 2^30 ms, about *)
(* twelve days of play, with no complaint between them.                 *)
(* ------------------------------------------------------------------ *)
LongDelay == 1073741824

LiveComplain == inbox = <<>> /\ ComplainHunger

LiveAnimate == inbox = <<>> /\ GuestsOnAnimate(LongDelay, [i \in Slots |-> "OAR_OK"])

NextLive ==
  \/ LiveComplain
  \/ LiveAnimate

InitLive == InitComplain /\ focus = "hunger"

\* Both calls keep being made.
SpecLive ==
  /\ InitLive
  /\ [][NextLive]_vars
  /\ WF_vars(LiveComplain)
  /\ WF_vars(LiveAnimate)

(* ------------------------------------------------------------------ *)
(* The staff registry and the mechanic dispatcher.                      *)
(* ------------------------------------------------------------------ *)
Kinds == {"mechanic", "handyman", "guard", "entertainer"}

\* The kinds in the order Staff::OnNewMonth pays them.
PayOrder == <<"mechanic", "handyman", "guard", "entertainer">>

\* A mechanic's ride == nullptr.
NoRide == 0

\* best == nullptr in Staff::DoTick.
NoMechanic == 0

\* The rides of the park and their mechanic entrances.
Rides == {1, 2}

MechanicEntrance(r) == IF r = 1 THEN <<8, 0, 0>> ELSE <<9, 1, 0>>

\* Where Activate(Point16(9, 2), ...) puts a new staff member.
HirePos == <<9, 2, 0>>

\* The voxels the mechanics walk between.
Voxels == {HirePos, <<10, 0, 0>>}

\* GuestBlock::GuestBlock: the ids of the slots, counted up from base_id.
RECURSIVE GuestBlockIds(_, _)
GuestBlockIds(i, base_id) ==
  IF i >= GUEST_BLOCK_SIZE
    THEN <<>>
    ELSE <<U16(base_id)>> \o GuestBlockIds(i + 1, base_id + 1)

\* The id of slot i of Guests::block, which is constructed as block(0).
GuestId(i) == GuestBlockIds(0, 0)[i + 1]

\* A staff operation as the observer records it; Staff::DoTick records in slot the
\* roster index of the mechanic it assigned.
StaffOp(name) == [op |-> name, slot |-> -1, at |-> <<-1, -1>>, arg |-> FALSE]

\* return last_person_id-- in place of return --last_person_id.
GenerateIDPostDecrement(lpid) == [last_person_id |-> U16(lpid - 1), id |-> lpid]

\* Staff::GenerateID: the counter after the call and the id returned.
GenerateID(lpid) == [last_person_id |-> U16(lpid - 1), id |-> U16(lpid - 1)]

\* The observer's log of the ids handed out, which follows the first MaxHires hires.
Logged(id) == IF Len(hire_log) < MaxHires THEN Append(hire_log, id) ELSE hire_log

Roster(kind) ==
  CASE kind = "mechanic"    -> mechanics
    [] kind = "handyman"    -> handymen
    [] kind = "guard"       -> guards
    [] kind = "entertainer" -> entertainers

StaffIds(kind) == {Roster(kind)[i].id : i \in 1..Len(Roster(kind))}

StaffAlive == Len(mechanics) + Len(handymen) + Len(guards) + Len(entertainers)

StaffUninitialize ==
  /\ mechanics' = <<>>
  /\ handymen' = <<>>
  /\ guards' = <<>>
  /\ entertainers' = <<>>
  /\ mechanic_requests' = <<>>
  /\ last_person_id' = STAFF_BASE_ID
  /\ hire_log' = <<>>
  /\ log_base' = STAFF_BASE_ID
  /\ wages' = <<>>
  /\ last_op' = StaffOp("Staff::Uninitialize")
  /\ UNCHANGED guestSide

RequestMechanic(ride) ==
  /\ mechanic_requests' = Append(mechanic_requests, ride)
  /\ wages' = <<>>
  /\ last_op' = StaffOp("RequestMechanic")
  /\ UNCHANGED <<last_person_id, mechanics, handymen, guards, entertainers, logVars,
                 guestSide>>

HireMechanic ==
  LET g == GenerateID(last_person_id)
  IN /\ last_person_id' = g.last_person_id
     /\ mechanics' = Append(mechanics, [id |-> g.id, ride |-> NoRide, vox_pos |-> HirePos])
     /\ hire_log' = Logged(g.id)
     /\ wages' = <<>>
     /\ last_op' = StaffOp("HireMechanic")
     /\ UNCHANGED <<handymen, guards, entertainers, mechanic_requests, log_base, guestSide>>

HireHandyman ==
  LET g == GenerateID(last_person_id)
  IN /\ last_person_id' = g.last_person_id
     /\ handymen' = Append(handymen, [id |-> g.id])
     /\ hire_log' = Logged(g.id)
     /\ wages' = <<>>
     /\ last_op' = StaffOp("HireHandyman")
     /\ UNCHANGED <<mechanics, guards, entertainers, mechanic_requests, log_base, guestSide>>

HireGuard ==
  LET g == GenerateID(last_person_id)
  IN /\ last_person_id' = g.last_person_id
     /\ guards' = Append(guards, [id |-> g.id])
     /\ hire_log' = Logged(g.id)
     /\ wages' = <<>>
     /\ last_op' = StaffOp("HireGuard")
     /\ UNCHANGED <<mechanics, handymen, entertainers, mechanic_requests, log_base, guestSide>>

HireEntertainer ==
  LET g == GenerateID(last_person_id)
  IN /\ last_person_id' = g.last_person_id
     /\ entertainers' = Append(entertainers, [id |-> g.id])
     /\ hire_log' = Logged(g.id)
     /\ wages' = <<>>
     /\ last_op' = StaffOp("HireEntertainer")
     /\ UNCHANGED <<mechanics, handymen, guards, mechanic_requests, log_base, guestSide>>

CountMechanics == U16(Len(mechanics))
CountHandymen == U16(Len(handymen))
CountGuards == U16(Len(guards))
CountEntertainers == U16(Len(entertainers))

\* Count(PERSON_ANY) in place of Count(t).
CountAny(kind) == U16(CountMechanics + CountHandymen + CountGuards + CountEntertainers)

\* Staff::Count for the kinds it handles.
Count(kind) ==
  CASE kind = "mechanic"    -> CountMechanics
    [] kind = "handyman"    -> CountHandymen
    [] kind = "guard"       -> CountGuards
    [] kind = "entertainer" -> CountEntertainers
    [] kind = "any" ->
         U16(CountMechanics + CountHandymen + CountGuards + CountEntertainers)

\* The sequence s without its i-th element (erase(it)).
Erase(s, i) == SubSeq(s, 1, i - 1) \o SubSeq(s, i + 1, Len(s))

\* Staff::Dismiss of the i-th member of a roster. Destroying a mechanic that is on its
\* way to a ride may hand the ride back to the queue.
Dismiss(kind, i) ==
  /\ i \in 1..Len(Roster(kind))
  /\ mechanics' = IF kind = "mechanic" THEN Erase(mechanics, i) ELSE mechanics
  /\ handymen' = IF kind = "handyman" THEN Erase(handymen, i) ELSE handymen
  /\ guards' = IF kind = "guard" THEN Erase(guards, i) ELSE guards
  /\ entertainers' = IF kind = "entertainer" THEN Erase(entertainers, i) ELSE entertainers
  /\ \E again \in BOOLEAN :
       /\ again => kind = "mechanic" /\ mechanics[i].ride # NoRide
       /\ mechanic_requests' =
            IF again THEN Append(mechanic_requests, mechanics[i].ride) ELSE mechanic_requests
  /\ wages' = <<>>
  /\ last_op' = StaffOp("Dismiss")
  /\ UNCHANGED <<last_person_id, logVars, guestSide>>

\* Mechanic::NotifyRideDeletion: a mechanic assigned to the ride loses its assignment.
MechanicNotifyRideDeletion(m, ri) == IF m.ride = ri THEN [m EXCEPT !.ride = NoRide] ELSE m

\* Staff::NotifyRideDeletion
StaffNotifyRideDeletion(ri) ==
  /\ mechanics' = [i \in 1..Len(mechanics) |-> MechanicNotifyRideDeletion(mechanics[i], ri)]
  /\ removed' = removed \cup {ri}
  /\ wages' = <<>>
  /\ last_op' = [StaffOp("Staff::NotifyRideDeletion") EXCEPT !.slot = ri]
  /\ UNCHANGED <<last_person_id, handymen, guards, entertainers, mechanic_requests,
                 logVars, guestVars, complaintVars, worldVars, inbox, winVars, gapVars,
                 focus, rcd, dirVars, days, saveVars>>

\* Staff::OnAnimate: every mechanic may have walked on, and one that was on its way to a
\* ride may have finished there. The other kinds carry no state the registry reads.
StaffOnAnimate ==
  /\ \E f \in [1..Len(mechanics) -> Voxels \X BOOLEAN] :
       mechanics' =
         [i \in 1..Len(mechanics) |->
            [mechanics[i] EXCEPT !.vox_pos = f[i][1],
                                 !.ride = IF f[i][2] THEN NoRide ELSE @]]
  /\ wages' = <<>>
  /\ last_op' = StaffOp("Staff::OnAnimate")
  /\ UNCHANGED <<last_person_id, handymen, guards, entertainers, mechanic_requests,
                 logVars, guestSide>>

Abs(x) == IF x < 0 THEN -x ELSE x

\* The distance Staff::DoTick computes between the entrance and a mechanic.
Distance(destination, pos) ==
  Abs(destination[1] - pos[1]) + Abs(destination[2] - pos[2])
    + Abs(destination[3] - pos[3])

\* d <= distance in place of d < distance.
NotFarther(d, distance) == d <= distance

Closer(d, distance) == d < distance

\* The loop of Staff::DoTick over the roster: the index of best, from mechanic i on.
RECURSIVE BestMechanic(_, _, _, _, _)
BestMechanic(i, ms, destination, best, distance) ==
  IF i > Len(ms)
    THEN best
    ELSE IF ms[i].ride = NoRide
           THEN LET d == Distance(destination, ms[i].vox_pos)
                IN IF best = NoMechanic \/ Closer(d, distance)
                     THEN BestMechanic(i + 1, ms, destination, i, d)
                     ELSE BestMechanic(i + 1, ms, destination, best, distance)
           ELSE BestMechanic(i + 1, ms, destination, best, distance)

\* Mechanic::Assign.
Assign(m, ride) == [m EXCEPT !.ride = ride]

\* mechanic_requests.back() in place of front().
Back(q) == q[Len(q)]

\* mechanic_requests.front() and pop_front().
Front(q) == Head(q)

\* pop_back() in place of pop_front().
PopBack(q) == SubSeq(q, 1, Len(q) - 1)

PopFront(q) == Tail(q)

StaffDoTick ==
  /\ IF mechanic_requests # <<>> /\ mechanics # <<>>
       THEN LET destination == MechanicEntrance(Front(mechanic_requests))
                best == BestMechanic(1, mechanics, destination, NoMechanic, 0)
            IN IF best # NoMechanic
                 THEN /\ mechanics' =
                           [mechanics EXCEPT ![best] = Assign(@, Front(mechanic_requests))]
                      /\ mechanic_requests' = PopFront(mechanic_requests)
                      /\ last_op' = [StaffOp("Staff::DoTick") EXCEPT !.slot = best]
                 ELSE /\ UNCHANGED <<mechanics, mechanic_requests>>
                      /\ last_op' = StaffOp("Staff::DoTick")
       ELSE /\ UNCHANGED <<mechanics, mechanic_requests>>
            /\ last_op' = StaffOp("Staff::DoTick")
  /\ wages' = <<>>
  /\ UNCHANGED <<last_person_id, handymen, guards, entertainers, logVars, guestSide>>

\* StaffMember::SALARY.
SALARY(kind) ==
  CASE kind = "mechanic"    -> 150000
    [] kind = "handyman"    -> 120000
    [] kind = "guard"       -> 135000
    [] kind = "entertainer" -> 100000

\* Staff::OnNewMonth; wages holds the PayStaffWages calls of the operation.
StaffOnNewMonth ==
  /\ wages' = [k \in 1..Len(PayOrder) |-> SALARY(PayOrder[k]) * Count(PayOrder[k])]
  /\ last_op' = StaffOp("Staff::OnNewMonth")
  /\ UNCHANGED <<staffVars, logVars, guestSide>>

(* ------------------------------------------------------------------ *)
(* The dispatcher: mechanics are hired and dismissed, rides ask for a   *)
(* mechanic, the mechanics walk and finish.                             *)
(* ------------------------------------------------------------------ *)
InitStaff ==
  /\ GuestsInit
  /\ paths = {}
  /\ max_guests = 0
  /\ inbox = <<>>
  /\ ObserverInit
  /\ StaffInit
  /\ focus = "hunger"

DispatchHire ==
  Len(mechanics) < MaxMechanics /\ Len(hire_log) <= MaxMechanics /\ HireMechanic

DispatchDismiss == \E i \in 1..Len(mechanics) : Dismiss("mechanic", i)

DispatchRequest ==
  \E ride \in Rides : Len(mechanic_requests) < MaxRequests /\ RequestMechanic(ride)

NextDispatch ==
  \/ DispatchHire
  \/ DispatchDismiss
  \/ DispatchRequest
  \/ StaffOnAnimate
  \/ StaffDoTick

SpecDispatch == InitStaff /\ [][NextDispatch]_vars

(* ------------------------------------------------------------------ *)
(* The dispatcher under a frame loop that keeps calling DoTick, with    *)
(* mechanics that finish their rides and a roster that is never emptied *)
(* once it has a mechanic.                                              *)
(* ------------------------------------------------------------------ *)
ServeHire ==
  Len(mechanics) < MaxMechanics /\ Len(hire_log) < MaxMechanics /\ HireMechanic

ServeDismiss == Len(mechanics) > 1 /\ DispatchDismiss

\* OnAnimate during which the mechanics stay where they stand.
ServeOnAnimate ==
  /\ StaffOnAnimate
  /\ \A i \in 1..Len(mechanics) : mechanics'[i].vox_pos = mechanics[i].vox_pos

\* Mechanic i, on its way to a ride, finishes there during an OnAnimate.
Finishes(i) ==
  /\ i \in 1..Len(mechanics)
  /\ mechanics[i].ride # NoRide
  /\ ServeOnAnimate
  /\ mechanics'[i].ride = NoRide

NextServe ==
  \/ ServeHire
  \/ ServeDismiss
  \/ DispatchRequest
  \/ ServeOnAnimate
  \/ StaffDoTick

SpecServe ==
  /\ InitStaff
  /\ [][NextServe]_vars
  /\ WF_vars(StaffDoTick)
  /\ \A i \in 1..MaxMechanics : WF_vars(Finishes(i))

(* ------------------------------------------------------------------ *)
(* The dispatcher in a park whose rides are removed: a ride asks for a  *)
(* mechanic only while it exists.                                       *)
(* ------------------------------------------------------------------ *)
RemovalRequest ==
  \E ride \in Rides \ removed :
    Len(mechanic_requests) < MaxRequests /\ RequestMechanic(ride)

RemovalNotify == \E ri \in Rides \ removed : StaffNotifyRideDeletion(ri)

NextRemoval ==
  \/ DispatchHire
  \/ RemovalRequest
  \/ RemovalNotify
  \/ StaffOnAnimate
  \/ StaffDoTick

SpecRemoval == InitStaff /\ [][NextRemoval]_vars

(* ------------------------------------------------------------------ *)
(* The registry: staff of the four kinds is hired, dismissed and paid.  *)
(* ------------------------------------------------------------------ *)
CanHire == StaffAlive < MaxStaff /\ Len(hire_log) < MaxHires

RegistryDismiss == \E kind \in Kinds : \E i \in 1..Len(Roster(kind)) : Dismiss(kind, i)

NextRegistry ==
  \/ CanHire /\ HireMechanic
  \/ CanHire /\ HireHandyman
  \/ CanHire /\ HireGuard
  \/ CanHire /\ HireEntertainer
  \/ RegistryDismiss
  \/ StaffOnNewMonth
  \/ StaffUninitialize

SpecRegistry == InitStaff /\ [][NextRegistry]_vars

(* ------------------------------------------------------------------ *)
(* The ids of the park: one staff member at a time is hired and         *)
(* dismissed while guests enter.                                        *)
(* ------------------------------------------------------------------ *)
InitIds ==
  /\ GuestsInit
  /\ paths = {<<1, 0>>}
  /\ max_guests = 1
  /\ inbox = <<>>
  /\ ObserverInit
  /\ StaffInit
  /\ focus = "hunger"

IdsOnNewDay == GuestsOnNewDay(TRUE) /\ UNCHANGED days

NextIds ==
  \/ StaffAlive < MaxAlone /\ HireMechanic
  \/ StaffAlive < MaxAlone /\ HireHandyman
  \/ StaffAlive < MaxAlone /\ HireGuard
  \/ StaffAlive < MaxAlone /\ HireEntertainer
  \/ RegistryDismiss
  \/ IdsOnNewDay

SpecIds == InitIds /\ [][NextIds]_vars

(* ------------------------------------------------------------------ *)
(* The GSTS pattern of the save game. The stream is a sequence of 16    *)
(* bit words; the state of a guest itself is not part of the model, so  *)
(* a guest record is its id.                                            *)
(* ------------------------------------------------------------------ *)
PutWord(v) == <<U16(v)>>

\* A 32 bit value, low word first.
PutLong(v) == <<U16(v), U16(v \div 65536)>>

GetWord(data, pos) == data[pos]

GetLong(data, pos) == data[pos] + 65536 * data[pos + 1]

\* The place of a complaint channel in the order Guests::Save writes them.
ChannelNo(K) ==
  CASE K = "hunger" -> 1
    [] K = "thirst" -> 2
    [] K = "waste" -> 3
    [] K = "litter" -> 4
    [] K = "vandalism" -> 5

\* The fields of the pool the pattern holds.
PoolState ==
  [start_voxel |-> start_voxel, daily_frac |-> daily_frac,
   next_daily_index |-> next_daily_index, free_idx |-> free_idx,
   complaint_counter |-> complaint_counter,
   time_since_complaint |-> time_since_complaint, active |-> active]

\* The loop of Guests::Save over the block, from slot i on.
RECURSIVE SaveGuests(_, _)
SaveGuests(i, act) ==
  IF i >= GUEST_BLOCK_SIZE
    THEN <<>>
    ELSE (IF act[i] THEN PutWord(GuestId(i)) ELSE <<>>) \o SaveGuests(i + 1, act)

\* What Guests::Save puts between StartPattern and EndPattern.
SaveData ==
  PutWord(start_voxel[1]) \o PutWord(start_voxel[2])
    \o PutWord(daily_frac) \o PutWord(next_daily_index) \o PutLong(free_idx)
    \o PutWord(complaint_counter["hunger"]) \o PutWord(complaint_counter["thirst"])
    \o PutWord(complaint_counter["waste"]) \o PutWord(complaint_counter["litter"])
    \o PutWord(complaint_counter["vandalism"])
    \o PutLong(time_since_complaint["hunger"]) \o PutLong(time_since_complaint["thirst"])
    \o PutLong(time_since_complaint["waste"]) \o PutLong(time_since_complaint["litter"])
    \o PutLong(time_since_complaint["vandalism"])
    \o PutLong(CountActiveGuests(active, free_idx))
    \o SaveGuests(0, active)

GuestsSave ==
  /\ gsts' = [name |-> "GSTS", version |-> CURRENT_VERSION_GSTS, data |-> SaveData]
  /\ saved' = PoolState
  /\ last_op' = [op |-> "Guests::Save", slot |-> -1, at |-> <<-1, -1>>, arg |-> FALSE]
  /\ UNCHANGED <<guestVars, complaintVars, worldVars, inbox, winVars, gapVars, sceneVars, days,
                 staffSide, staf, staf_saved>>

\* A get that runs past the end of the stream fails, and the load ends there: what was
\* assigned before stays assigned, what comes after is not read.
HasWord(data, pos) == pos <= Len(data)

HasLong(data, pos) == pos + 1 <= Len(data)

ReadWord(data, pos, old) == IF HasWord(data, pos) THEN GetWord(data, pos) ELSE old

ReadLong(data, pos, old) == IF HasLong(data, pos) THEN GetLong(data, pos) ELSE old

\* OpenPattern(name) on a stream that holds the pattern p.
OpenPattern(p, name) == p.name = name

\* The loop of Guests::Load over the guest records: i records are left, the next one is
\* at pos.
RECURSIVE LoadGuests(_, _, _, _)
LoadGuests(i, data, pos, act) ==
  IF i <= 0 \/ ~HasWord(data, pos)
    THEN act
    ELSE LoadGuests(i - 1, data, pos + 1, [act EXCEPT ![GetWord(data, pos)] = TRUE])

\* Guests::Load looking for complaint data in a version 1 pattern as well.
GuestRecordsOlder(version) == IF version > 0 THEN 22 ELSE 7

\* Where Guests::Load finds the number of guest records.
GuestRecords(version) == IF version > 1 THEN 22 ELSE 7

\* The load of gsts ends in an error: another pattern, a version the code does not
\* know, or a get past the end of the stream.
GuestsLoadFails ==
  \/ ~OpenPattern(gsts, "GSTS")
  \/ gsts.version > CURRENT_VERSION_GSTS
  \/ /\ gsts.version > 0
     /\ LET records == GuestRecords(gsts.version)
        IN \/ ~HasLong(gsts.data, records)
           \/ Len(gsts.data) < records + 1 + GetLong(gsts.data, records)

\* Guests::Load of the pattern in gsts.
GuestsLoad ==
  /\ LET version == gsts.version
         data == gsts.data
         records == GuestRecords(version)
     IN IF ~OpenPattern(gsts, "GSTS") \/ version = 0 \/ version > CURRENT_VERSION_GSTS
          THEN UNCHANGED <<guestVars, complaintVars>>
          ELSE /\ start_voxel' =
                    <<IF HasWord(data, 1) THEN ToInt16(GetWord(data, 1)) ELSE start_voxel[1],
                      IF HasWord(data, 2) THEN ToInt16(GetWord(data, 2)) ELSE start_voxel[2]>>
               /\ daily_frac' = ReadWord(data, 3, daily_frac)
               /\ next_daily_index' = ReadWord(data, 4, next_daily_index)
               /\ free_idx' = ReadLong(data, 5, free_idx)
               /\ IF version > 1
                    THEN /\ complaint_counter' =
                              [K \in Channels |->
                                 ReadWord(data, 6 + ChannelNo(K), complaint_counter[K])]
                         /\ time_since_complaint' =
                              [K \in Channels |->
                                 ReadLong(data, 10 + 2 * ChannelNo(K), time_since_complaint[K])]
                    ELSE UNCHANGED complaintVars
               /\ active' = LoadGuests(ReadLong(data, records, 0), data, records + 2, active)
  /\ last_op' = [op |-> "Guests::Load", slot |-> -1, at |-> <<-1, -1>>,
                 arg |-> GuestsLoadFails]
  /\ UNCHANGED <<worldVars, inbox, winVars, gapVars, sceneVars, days, staffSide, saveVars>>

(* ------------------------------------------------------------------ *)
(* A game is played and saved; the saved game is loaded, into the pool  *)
(* as it is or after Uninitialize.                                      *)
(* ------------------------------------------------------------------ *)
Playing == gsts = NoPattern

ComplaintsSoFar ==
  complaint_counter["hunger"] + complaint_counter["thirst"] + complaint_counter["waste"]
    + complaint_counter["litter"] + complaint_counter["vandalism"]

PlayComplain ==
  /\ Playing
  /\ ComplaintsSoFar < MaxComplaints
  /\ \/ ComplainHunger
     \/ ComplainThirst
     \/ ComplainWaste
     \/ ComplainLitter
     \/ ComplainVandalism

NextSave ==
  \/ Playing /\ PoolOnNewDay
  \/ Playing /\ PoolOnAnimate
  \/ Playing /\ PoolDoTick
  \/ PlayComplain
  \/ Playing /\ GuestsSave
  \/ GuestsUninitialize
  \/ ~Playing /\ GuestsLoad

SpecSave == Init /\ [][NextSave]_vars

(* ------------------------------------------------------------------ *)
(* A long game: the registry is reset once, and staff is hired and      *)
(* dismissed one member at a time.                                      *)
(* ------------------------------------------------------------------ *)
\* The number in the name a new staff member gets.
DisplayNumber(id) == STAFF_BASE_ID - id

NextWrap ==
  \/ log_base # STAFF_BASE_ID /\ StaffUninitialize
  \/ StaffAlive < MaxAlone /\ HireMechanic
  \/ StaffAlive < MaxAlone /\ HireHandyman
  \/ StaffAlive < MaxAlone /\ HireGuard
  \/ StaffAlive < MaxAlone /\ HireEntertainer
  \/ RegistryDismiss

SpecWrap == InitStaff /\ [][NextWrap]_vars

(* ------------------------------------------------------------------ *)
(* Calls that break the preconditions of the registry. NOT_REACHED()    *)
(* ends the program: no operation follows it.                           *)
(* ------------------------------------------------------------------ *)
\* The values of PersonType a caller may pass: the four kinds, PERSON_ANY and a value
\* that is none of these.
PersonTypes == Kinds \cup {"any", "invalid"}

Aborted == last_op.op = "abort"

\* What a query returned: the id of a member, or a count.
Returned(name, value) == [StaffOp(name) EXCEPT !.slot = value]

\* A pointer that is no member of the registry.
NoMember == -1

\* Staff::Count as a call.
StaffCount(t) ==
  /\ last_op' = IF t \in Kinds \cup {"any"} THEN Returned("Staff::Count", Count(t))
                                            ELSE StaffOp("abort")
  /\ wages' = <<>>
  /\ UNCHANGED <<staffVars, logVars, guestSide>>

\* Staff::Get. std::advance past the end of the roster and the dereference of what it
\* reaches are undefined: the program may end, or the call returns some pointer, to a
\* member of the roster or to none.
StaffGet(t, list_index) ==
  /\ IF t \in Kinds
       THEN IF list_index < Len(Roster(t))
              THEN last_op' = Returned("Staff::Get", Roster(t)[list_index + 1].id)
              ELSE \/ last_op' = StaffOp("abort")
                   \/ last_op' = Returned("Staff::Get", NoMember)
                   \/ \E i \in 1..Len(Roster(t)) :
                        last_op' = Returned("Staff::Get", Roster(t)[i].id)
       ELSE last_op' = StaffOp("abort")
  /\ wages' = <<>>
  /\ UNCHANGED <<staffVars, logVars, guestSide>>

\* Staff::Dismiss of a person that is in no roster of its type: the loop ends without
\* a match, or the type is not handled.
DismissAbsent(t) ==
  /\ last_op' = StaffOp("abort")
  /\ wages' = <<>>
  /\ UNCHANGED <<staffVars, logVars, guestSide>>

AbortHire ==
  /\ CanHire
  /\ \/ HireMechanic
     \/ HireHandyman
     \/ HireGuard
     \/ HireEntertainer

NextAbort ==
  \/ ~Aborted /\ AbortHire
  \/ ~Aborted /\ RegistryDismiss
  \/ ~Aborted /\ \E t \in PersonTypes : StaffCount(t)
  \/ ~Aborted /\ \E t \in PersonTypes, list_index \in 0..MaxStaff : StaffGet(t, list_index)
  \/ ~Aborted /\ \E t \in PersonTypes : DismissAbsent(t)

SpecAbort == InitStaff /\ [][NextAbort]_vars

(* ------------------------------------------------------------------ *)
(* The STAF pattern of the save game. The words of one staff member are *)
(* written by that member's own Save: a mechanic is its id, its ride    *)
(* and its voxel, any other member is its id.                           *)
(* ------------------------------------------------------------------ *)
MechanicWords == 5

PersonWords == 1

SaveMechanic(m) ==
  PutWord(m.id) \o PutWord(m.ride)
    \o PutWord(m.vox_pos[1]) \o PutWord(m.vox_pos[2]) \o PutWord(m.vox_pos[3])

LoadMechanic(w) == [id |-> w[1], ride |-> w[2], vox_pos |-> <<w[3], w[4], w[5]>>]

SavePerson(m) == PutWord(m.id)

LoadPerson(w) == [id |-> w[1]]

\* The ride with the index a request was saved under.
GetRideInstance(index) == index

RECURSIVE Flatten(_)
Flatten(ss) == IF ss = <<>> THEN <<>> ELSE Head(ss) \o Flatten(Tail(ss))

\* A size followed by the members, in the order of the list.
SaveRequests(q) == PutLong(Len(q)) \o Flatten([j \in 1..Len(q) |-> PutWord(q[j])])

SaveMechanics(s) == PutLong(Len(s)) \o Flatten([j \in 1..Len(s) |-> SaveMechanic(s[j])])

SavePersons(s) == PutLong(Len(s)) \o Flatten([j \in 1..Len(s) |-> SavePerson(s[j])])

\* The fields of the registry the pattern holds.
RegistryState ==
  [last_person_id |-> last_person_id, mechanic_requests |-> mechanic_requests,
   mechanics |-> mechanics, handymen |-> handymen, guards |-> guards,
   entertainers |-> entertainers]

\* Staff::Save with the guards written before the handymen.
StafDataGuardsFirst ==
  PutWord(last_person_id)
    \o SaveRequests(mechanic_requests)
    \o SaveMechanics(mechanics)
    \o SavePersons(guards)
    \o SavePersons(handymen)
    \o SavePersons(entertainers)

\* What Staff::Save puts between StartPattern and EndPattern.
StafData ==
  PutWord(last_person_id)
    \o SaveRequests(mechanic_requests)
    \o SaveMechanics(mechanics)
    \o SavePersons(handymen)
    \o SavePersons(guards)
    \o SavePersons(entertainers)

StaffSave ==
  /\ staf' = [name |-> "STAF", version |-> CURRENT_VERSION_STAF, data |-> StafData]
  /\ staf_saved' = RegistryState
  /\ wages' = <<>>
  /\ last_op' = StaffOp("Staff::Save")
  /\ UNCHANGED <<staffVars, logVars, guestVars, complaintVars, worldVars, inbox, winVars,
                 gapVars, sceneVars, days, gsts, saved>>

\* One loop of Staff::Load: a size at pos, then that many members of width words each.
\* The loop ends early at a get past the end of the stream; ok tells that every get
\* up to here succeeded.
ReadList(data, pos, width, ok) ==
  IF ~ok \/ ~HasLong(data, pos)
    THEN [ok |-> FALSE, pos |-> pos, items |-> <<>>]
    ELSE LET n == GetLong(data, pos)
             k == Min(n, (Len(data) - (pos + 1)) \div width)
         IN [ok |-> k = n, pos |-> pos + 2 + k * width,
             items |-> [j \in 1..k |->
                          SubSeq(data, pos + 2 + (j - 1) * width, pos + 1 + j * width)]]

\* A loop Staff::Load does not run at this version.
NotRead(before) == [ok |-> before.ok, pos |-> before.pos, items |-> <<>>]

\* The gets of Staff::Load on the body of a pattern of a version it knows.
ReadStaf(version, data) ==
  LET first == [ok |-> version < 3 \/ HasWord(data, 1),
                pos |-> IF version >= 3 THEN 2 ELSE 1, items |-> <<>>]
      q == ReadList(data, first.pos, 1, first.ok)
      m == IF version >= 2 THEN ReadList(data, q.pos, MechanicWords, q.ok) ELSE NotRead(q)
      h == IF version >= 3 THEN ReadList(data, m.pos, PersonWords, m.ok) ELSE NotRead(m)
      g == IF version >= 3 THEN ReadList(data, h.pos, PersonWords, h.ok) ELSE NotRead(h)
      e == IF version >= 3 THEN ReadList(data, g.pos, PersonWords, g.ok) ELSE NotRead(g)
  IN [ok |-> e.ok, requests |-> q.items, mechanics |-> m.items, handymen |-> h.items,
      guards |-> g.items, entertainers |-> e.items]

\* The load of staf ends in an error: another pattern, a version the code does not
\* know, or a get past the end of the stream.
StaffLoadFails ==
  \/ ~OpenPattern(staf, "STAF")
  \/ staf.version > CURRENT_VERSION_STAF
  \/ staf.version > 0 /\ ~ReadStaf(staf.version, staf.data).ok

\* Staff::Load of the pattern in staf.
StaffLoad ==
  /\ LET version == staf.version
         data == staf.data
         r == ReadStaf(version, data)
     IN IF ~OpenPattern(staf, "STAF") \/ version = 0 \/ version > CURRENT_VERSION_STAF
          THEN UNCHANGED staffVars
          ELSE /\ last_person_id' =
                    IF version >= 3 THEN ReadWord(data, 1, last_person_id)
                                    ELSE last_person_id
               /\ mechanic_requests' =
                    mechanic_requests
                      \o [j \in 1..Len(r.requests) |-> GetRideInstance(r.requests[j][1])]
               /\ mechanics' =
                    mechanics \o [j \in 1..Len(r.mechanics) |-> LoadMechanic(r.mechanics[j])]
               /\ handymen' =
                    handymen \o [j \in 1..Len(r.handymen) |-> LoadPerson(r.handymen[j])]
               /\ guards' =
                    guards \o [j \in 1..Len(r.guards) |-> LoadPerson(r.guards[j])]
               /\ entertainers' =
                    entertainers
                      \o [j \in 1..Len(r.entertainers) |-> LoadPerson(r.entertainers[j])]
  /\ wages' = <<>>
  /\ last_op' = [StaffOp("Staff::Load") EXCEPT !.arg = StaffLoadFails]
  /\ UNCHANGED <<logVars, guestSide>>

(* ------------------------------------------------------------------ *)
(* Save games of this and of older versions of the game, and what may   *)
(* happen to the file: it is cut short, it holds another pattern where  *)
(* the loader expects this one, or it was written by a newer game.      *)
(* ------------------------------------------------------------------ *)
\* The body of the GSTS pattern as Guests::Load reads it at a version.
GstsDataAt(version) ==
  CASE version = 0 -> <<>>
    [] version = 1 -> SubSeq(SaveData, 1, 6) \o SubSeq(SaveData, 22, Len(SaveData))
    [] OTHER -> SaveData

\* The body of the STAF pattern as Staff::Load reads it at a version.
StafDataAt(version) ==
  CASE version = 0 -> <<>>
    [] version = 1 -> SaveRequests(mechanic_requests)
    [] version = 2 -> SaveRequests(mechanic_requests) \o SaveMechanics(mechanics)
    [] OTHER -> StafData

FileOp(name) == [op |-> name, slot |-> -1, at |-> <<-1, -1>>, arg |-> FALSE]

OlderGuestsSave ==
  /\ \E version \in 0..(CURRENT_VERSION_GSTS - 1) :
       gsts' = [name |-> "GSTS", version |-> version, data |-> GstsDataAt(version)]
  /\ saved' = PoolState
  /\ last_op' = FileOp("older Guests::Save")
  /\ UNCHANGED <<guestVars, complaintVars, worldVars, inbox, winVars, gapVars, sceneVars, days,
                 staffSide, staf, staf_saved>>

OlderStaffSave ==
  /\ \E version \in 0..(CURRENT_VERSION_STAF - 1) :
       staf' = [name |-> "STAF", version |-> version, data |-> StafDataAt(version)]
  /\ staf_saved' = RegistryState
  /\ last_op' = FileOp("older Staff::Save")
  /\ UNCHANGED <<staffSide, guestVars, complaintVars, worldVars, inbox, winVars, gapVars,
                 sceneVars, days, gsts, saved>>

\* What a pattern of the file may have become when it is loaded.
Damaged(p, current) ==
  {[p EXCEPT !.data = SubSeq(p.data, 1, n)] : n \in 0..(Len(p.data) - 1)}
    \cup {[p EXCEPT !.name = "DATE"], [p EXCEPT !.version = current + 1]}

GstsDamage ==
  /\ gsts' \in Damaged(gsts, CURRENT_VERSION_GSTS)
  /\ last_op' = FileOp("damage")
  /\ UNCHANGED <<guestVars, complaintVars, worldVars, inbox, winVars, gapVars, sceneVars, days,
                 staffSide, saved, staf, staf_saved>>

StafDamage ==
  /\ staf' \in Damaged(staf, CURRENT_VERSION_STAF)
  /\ last_op' = FileOp("damage")
  /\ UNCHANGED <<guestVars, complaintVars, worldVars, inbox, winVars, gapVars, sceneVars, days,
                 staffSide, gsts, saved, staf_saved>>

\* The pool as Guests::Guests and Guests::Uninitialize leave it.
PoolFresh ==
  /\ active = [i \in Slots |-> FALSE]
  /\ free_idx = 0
  /\ start_voxel = <<-1, -1>>
  /\ daily_frac = 0
  /\ next_daily_index = 0
  /\ complaint_counter = FreshCounters
  /\ time_since_complaint = FreshTimers

\* The registry as Staff::Uninitialize leaves it, but for last_person_id.
RegistryEmpty == StaffAlive = 0 /\ mechanic_requests = <<>>

\* A run plays, saves and loads either the guests or the staff; the other pool stays
\* as it was constructed.
GuestsTurn == staf = NoPattern /\ RegistryEmpty /\ last_person_id = 0

StaffTurn == gsts = NoPattern /\ PoolFresh

\* The file is the one this game has just written.
JustSaved == last_op.op \in {"Guests::Save", "Staff::Save"}

FileHire ==
  /\ StaffAlive < MaxFileStaff
  /\ \/ HireMechanic
     \/ HireHandyman
     \/ HireGuard
     \/ HireEntertainer

FileRequest ==
  /\ Len(mechanic_requests) < MaxFileRequests
  /\ \E ride \in Rides : RequestMechanic(ride)

\* OnAnimate with every guest staying in the park.
FileOnAnimate ==
  \E delay \in PoolDelays :
    TimersWithin(delay) /\ GuestsOnAnimate(delay, [i \in Slots |-> "OAR_OK"])

FileComplain ==
  /\ ComplaintsSoFar < MaxFileComplaints
  /\ \/ ComplainHunger
     \/ ComplainVandalism

NextFiles ==
  \/ GuestsTurn /\ gsts = NoPattern /\ PoolOnNewDay
  \/ GuestsTurn /\ gsts = NoPattern /\ FileOnAnimate
  \/ GuestsTurn /\ gsts = NoPattern /\ FileComplain
  \/ GuestsTurn /\ gsts = NoPattern /\ GuestsSave
  \/ GuestsTurn /\ gsts = NoPattern /\ OlderGuestsSave
  \/ GuestsTurn /\ JustSaved /\ GstsDamage
  \/ GuestsTurn /\ GuestsUninitialize
  \/ GuestsTurn /\ gsts # NoPattern /\ GuestsLoad
  \/ StaffTurn /\ staf = NoPattern /\ FileHire
  \/ StaffTurn /\ staf = NoPattern /\ FileRequest
  \/ StaffTurn /\ staf = NoPattern /\ StaffDoTick
  \/ StaffTurn /\ staf = NoPattern /\ StaffSave
  \/ StaffTurn /\ staf = NoPattern /\ OlderStaffSave
  \/ StaffTurn /\ JustSaved /\ StafDamage
  \/ StaffTurn /\ StaffUninitialize
  \/ StaffTurn /\ staf # NoPattern /\ RegistryEmpty /\ StaffLoad

SpecFiles == Init /\ [][NextFiles]_vars

(* ------------------------------------------------------------------ *)
(* Properties.                                                          *)
(* ------------------------------------------------------------------ *)
ActiveSet == {i \in Slots : active[i]}

\* C1: in every state the pool reaches, FindNextFreeGuest() followed by
\* HasFreeGuests() returns true exactly when some slot of the block is inactive.
C1_FreeAgreesWithScan ==
  LET f == FindNextFreeGuest(active, free_idx)
  IN HasFreeGuests(active, f.free_idx) = (\E i \in Slots : ~active[i])

\* A deactivation left a hole below an active slot and free_idx points at it.
C1_Witness ==
  /\ last_op.op \in {"OnAnimate", "DoTick"}
  /\ ~active[0] /\ active[1] /\ free_idx = 0

\* C2: when a window of TICK_COUNT_PER_DAY consecutive DoTick calls closes, every
\* slot that was active throughout it got DailyUpdate exactly once, wherever the
\* cursor stood when the window opened.
C2_OneDailyUpdatePerWindow ==
  win_ticks = TICK_COUNT_PER_DAY =>
    \A i \in Slots : win_stay[i] => win_upd[i] = 1

\* A window that opened in the middle of a day closed with the last slot still active.
C2_Witness ==
  /\ win_ticks = TICK_COUNT_PER_DAY
  /\ daily_frac = 1
  /\ win_stay[GUEST_BLOCK_SIZE - 1]
  /\ win_upd[GUEST_BLOCK_SIZE - 1] = 1

\* C3: whenever a channel sends a message after an earlier one of its kind, the
\* delays passed to OnAnimate between the two sum to more than COMPLAINT_TIMEOUT.
C3_OneMessagePerTimeout ==
  \A K \in Channels : last_gap[K] = -1 \/ last_gap[K] > COMPLAINT_TIMEOUT

\* The hunger channel has sent its second message.
C3_Witness ==
  /\ inbox = <<GUI_MESSAGE("hunger"), GUI_MESSAGE("hunger")>>
  /\ last_gap["hunger"] > COMPLAINT_TIMEOUT
  /\ last_op.op = "Complain"

\* A valid spawn voxel is at hand: the cached one, or one FindEdgeRoad can find.
SpawnVoxelExists ==
  \/ start_voxel[1] >= 0 /\ start_voxel[2] >= 0 /\ start_voxel \in paths
  \/ paths \cap EdgeStacks # {}

\* C9: OnNewDay activates at most one guest and deactivates none; it activates one
\* exactly when the active count is below max_guests, the RNG sample succeeds, a
\* valid spawn voxel exists and a slot is free; it sends no message.
C9_OnNewDaySpawnsAtMostOne ==
  [][last_op'.op = "OnNewDay" =>
       LET before == ActiveSet
           after == {i \in Slots : active'[i]}
       IN /\ before \subseteq after
          /\ Cardinality(after \ before) <= 1
          /\ (Cardinality(after \ before) = 1) <=>
               (/\ Cardinality(before) < max_guests
                /\ last_op'.arg
                /\ SpawnVoxelExists
                /\ before # Slots)
          /\ (paths \cap EdgeStacks = {} /\ before = {} => after = {})
          /\ inbox' = inbox]_vars

\* OnNewDay has spawned into slot 1 while slot 0 was taken.
C9_Witness ==
  /\ last_op.op = "OnNewDay" /\ last_op.slot = 1 /\ last_op.arg
  /\ active[0] /\ active[1]
  /\ inbox = <<>>

\* C10: in the spawn scenario (road at the edge, RNG always succeeding, no
\* deactivation, max_guests <= GUEST_BLOCK_SIZE) after k <= max_guests OnNewDay
\* calls exactly the slots 0..k-1 are active and free_idx = k; later calls spawn
\* nothing, so the active count never exceeds max_guests.
C10_SpawnScenario ==
  /\ days <= max_guests => ActiveSet = 0 .. (days - 1) /\ free_idx = days
  /\ days > max_guests => ActiveSet = 0 .. (max_guests - 1)
  /\ Cardinality(ActiveSet) <= max_guests

\* OnNewDay was called once more than max_guests allows.
C10_Witness ==
  /\ max_guests = GUEST_BLOCK_SIZE - 1
  /\ days = max_guests + 1
  /\ ActiveSet = 0 .. (max_guests - 1)
  /\ last_op.op = "OnNewDay" /\ last_op.slot = -1

\* The ids of the persons that are active: the guests in active slots and the staff.
ActiveGuestIds == {GuestId(i) : i \in ActiveSet}

AllStaffIds == UNION {StaffIds(kind) : kind \in Kinds}

\* C5: for any sequence of hires (of any kind), dismissals and guest activations no two
\* active persons share an id: no staff id is the id of an active guest, and no two
\* staff members employed at the same time have the same id.
C5_UniqueIds ==
  /\ AllStaffIds \cap ActiveGuestIds = {}
  /\ Cardinality(AllStaffIds) = StaffAlive


\* The mechanics without a ride.
Unassigned == {i \in 1..Len(mechanics) : mechanics[i].ride = NoRide}

\* |E.x - m.x| + |E.y - m.y| + |E.z - m.z| for the entrance E of a ride and mechanic i.
ManhattanDistance(ride, i) ==
  LET E == MechanicEntrance(ride)
      m == mechanics[i].vox_pos
  IN Abs(E[1] - m[1]) + Abs(E[2] - m[2]) + Abs(E[3] - m[3])

\* C4: each Staff::DoTick() with a non-empty request queue either assigns the request at
\* the queue head to a mechanic that was unassigned and whose Manhattan distance to the
\* ride's mechanic entrance is minimal among the unassigned mechanics, the lowest roster
\* index winning a tie, or, when no mechanic is unassigned, leaves the queue and every
\* mechanic's assignment unchanged.
C4_DispatchNearest ==
  [][(last_op'.op = "Staff::DoTick" /\ mechanic_requests # <<>>) =>
       LET ride == Head(mechanic_requests)
       IN IF Unassigned = {}
            THEN UNCHANGED <<mechanics, mechanic_requests>>
            ELSE \E i \in Unassigned :
                   /\ \A j \in Unassigned :
                        /\ ManhattanDistance(ride, i) <= ManhattanDistance(ride, j)
                        /\ ManhattanDistance(ride, j) = ManhattanDistance(ride, i) => i <= j
                   /\ mechanics' = [mechanics EXCEPT ![i].ride = ride]
                   /\ mechanic_requests' = Tail(mechanic_requests)]_vars

\* C4 happens: a tick has assigned a ride to the second mechanic of the roster because
\* the first one, although without a ride, stands farther from the entrance.
C4_Witness ==
  /\ last_op.op = "Staff::DoTick"
  /\ last_op.slot = 2
  /\ Len(mechanics) = 2
  /\ mechanics[1].ride = NoRide
  /\ mechanics[2].ride # NoRide
  /\ ManhattanDistance(mechanics[2].ride, 2) < ManhattanDistance(mechanics[2].ride, 1)

\* C6 as corrected: the k-th hire since Staff::Uninitialize set the counter to
\* UINT16_MAX receives UINT16_MAX - k, so after H hires the ids handed out are exactly
\* UINT16_MAX - H .. UINT16_MAX - 1, the first hire receiving UINT16_MAX - 1 and
\* UINT16_MAX itself not being used; guest slot i always carries id i.
C6_IdsBelowBase ==
  /\ log_base = STAFF_BASE_ID =>
       /\ \A k \in 1..Len(hire_log) : hire_log[k] = STAFF_BASE_ID - k
       /\ {hire_log[k] : k \in 1..Len(hire_log)} =
            (STAFF_BASE_ID - Len(hire_log))..(STAFF_BASE_ID - 1)
  /\ \A i \in Slots : GuestId(i) = i

\* C6 happens: MaxHires members were hired since the reset and some of them dismissed.
C6_Witness ==
  /\ log_base = STAFF_BASE_ID
  /\ Len(hire_log) = MaxHires
  /\ StaffAlive < MaxHires
  /\ last_person_id = STAFF_BASE_ID - MaxHires

\* C6 as stated: after H hires since the registry was initialised (its counter set to
\* UINT16_MAX) the ids handed out are exactly the half-open range
\* (UINT16_MAX - H, UINT16_MAX], the first hire receiving UINT16_MAX; guest slot i
\* always carries id i.
C6_IdsUpToBase ==
  /\ log_base = STAFF_BASE_ID =>
       {hire_log[k] : k \in 1..Len(hire_log)} =
         (STAFF_BASE_ID - Len(hire_log) + 1)..STAFF_BASE_ID
  /\ \A i \in Slots : GuestId(i) = i

\* C8: Staff::OnNewMonth() makes exactly one PayStaffWages call per kind, for mechanics,
\* handymen, guards and entertainers in that order, each of SALARY[kind] times the number
\* of members of that kind, and changes no roster, no id counter and no request queue.
C8_WagesPerKind ==
  [][last_op'.op = "Staff::OnNewMonth" =>
       /\ wages' = <<SALARY("mechanic") * Len(mechanics),
                     SALARY("handyman") * Len(handymen),
                     SALARY("guard") * Len(guards),
                     SALARY("entertainer") * Len(entertainers)>>
       /\ UNCHANGED <<mechanics, handymen, guards, entertainers, last_person_id,
                      mechanic_requests>>]_vars

\* C8 happens: a month ended with members of two kinds employed in different numbers.
C8_Witness ==
  /\ last_op.op = "Staff::OnNewMonth"
  /\ Len(wages) = 4
  /\ Len(handymen) = 2
  /\ Len(entertainers) = 1
  /\ wages[2] = 2 * SALARY("handyman")

\* C7: Guests::Save of a reachable pool S followed by Guests::Load into a fresh pool
\* yields a pool equal to S on start_voxel, daily_frac, next_daily_index, free_idx, the
\* five complaint counters, the five complaint timers and the set of active slots; the
\* count K that Save wrote equals the number of guest records that follow it.
C7_SaveLoadRoundTrip ==
  [][(last_op'.op = "Guests::Load" /\ PoolFresh) =>
       /\ PoolState' = saved
       /\ GetLong(gsts.data, 22) = Len(gsts.data) - 23]_vars

\* C7 happens: a pool was saved that had a guest in its last slot behind a free slot,
\* complaints counted and timers past the timeout, and the load has brought it back.
C7_Witness ==
  /\ last_op.op = "Guests::Load"
  /\ PoolState = saved
  /\ active[GUEST_BLOCK_SIZE - 1]
  /\ \E i \in Slots : ~active[i]
  /\ free_idx < GUEST_BLOCK_SIZE - 1
  /\ complaint_counter["hunger"] = MaxComplaints
  /\ time_since_complaint["hunger"] > COMPLAINT_TIMEOUT

\* C11: for the hunger channel the first 79 ComplainHunger calls after a reset emit no
\* message; the 80th call, made while time_since_complaint_hunger >= COMPLAINT_TIMEOUT
\* (the timeout itself included, as in a freshly constructed pool), emits exactly one
\* GUI_MESSAGE_COMPLAIN_HUNGRY and resets counter and timer to 0; calls made within
\* 1000 ms of a message emit no further message.
C11_HungerEightiethCall ==
  [][(last_op'.op = "Complain"
        /\ complaint_counter'["hunger"] # complaint_counter["hunger"]) =>
       LET n == complaint_counter["hunger"] + 1
           t == time_since_complaint["hunger"]
       IN /\ n < COMPLAINT_THRESHOLD_HUNGER => inbox' = inbox
          /\ (n = COMPLAINT_THRESHOLD_HUNGER /\ t >= COMPLAINT_TIMEOUT) =>
               /\ inbox' = Append(inbox, GUI_MESSAGE("hunger"))
               /\ complaint_counter'["hunger"] = 0
               /\ time_since_complaint'["hunger"] = 0
          /\ (since_msg["hunger"] # -1 /\ since_msg["hunger"] <= 1000) =>
               inbox' = inbox]_vars

\* The mechanics whose ride a step changes.
Reassigned == {i \in 1..Len(mechanics) : mechanics'[i].ride # mechanics[i].ride}

\* C12: Staff::DoTick() makes at most one assignment per call and assigns only the
\* request at the head of the queue; the queue otherwise only grows at its tail, so
\* rides are handed out in the order RequestMechanic was called; with an empty queue
\* or without mechanics DoTick changes nothing.
C12_HeadOfQueueOnly ==
  [][/\ last_op'.op = "Staff::DoTick" =>
          /\ Len(mechanics') = Len(mechanics)
          /\ \/ UNCHANGED staffVars
             \/ /\ mechanic_requests # <<>>
                /\ mechanic_requests' = Tail(mechanic_requests)
                /\ \E i \in 1..Len(mechanics) :
                     /\ Reassigned = {i}
                     /\ mechanics[i].ride = NoRide
                     /\ mechanics' = [mechanics EXCEPT ![i].ride = Head(mechanic_requests)]
                /\ UNCHANGED <<last_person_id, handymen, guards, entertainers>>
          /\ (mechanic_requests = <<>> \/ mechanics = <<>>) => UNCHANGED staffVars
     /\ last_op'.op # "Staff::DoTick" =>
          /\ \/ mechanic_requests' = mechanic_requests
             \/ \E ride \in Rides : mechanic_requests' = Append(mechanic_requests, ride)
          /\ \A i \in 1..Min(Len(mechanics), Len(mechanics')) :
               mechanics'[i].id = mechanics[i].id =>
                 mechanics'[i].ride \in {mechanics[i].ride, NoRide}]_vars

\* C12 happens: a tick has handed the head of the queue to a mechanic while a request
\* for the other ride, made later, stays in the queue.
C12_Witness ==
  /\ last_op.op = "Staff::DoTick"
  /\ last_op.slot \in 1..Len(mechanics)
  /\ Len(mechanic_requests) = 1
  /\ mechanics[last_op.slot].ride # NoRide
  /\ mechanics[last_op.slot].ride # mechanic_requests[1]

C14_VersionOneKeepsReset ==
  [][(last_op'.op = "Guests::Load" /\ OpenPattern(gsts, "GSTS")) =>
       /\ (gsts.version = 1 /\ PoolFresh) =>
            /\ ~last_op'.arg
            /\ start_voxel' = saved.start_voxel
            /\ daily_frac' = saved.daily_frac
            /\ next_daily_index' = saved.next_daily_index
            /\ free_idx' = saved.free_idx
            /\ active' = saved.active
            /\ complaint_counter' = [K \in Channels |-> 0]
            /\ time_since_complaint' = [K \in Channels |-> COMPLAINT_TIMEOUT]
       /\ gsts.version = 0 =>
            /\ ~last_op'.arg
            /\ UNCHANGED <<guestVars, complaintVars>>]_vars

\* C14 happens: a pool with a guest, a counted complaint and a timer past the timeout
\* was saved by a version 1 game, and the load into the uninitialized pool has brought
\* back the guest but not the complaint data.
C14_Witness ==
  /\ last_op.op = "Guests::Load"
  /\ gsts.name = "GSTS"
  /\ gsts.version = 1
  /\ \E i \in Slots : active[i]
  /\ active = saved.active
  /\ saved.complaint_counter["hunger"] = 1
  /\ saved.time_since_complaint["vandalism"] > COMPLAINT_TIMEOUT
  /\ complaint_counter = [K \in Channels |-> 0]
  /\ time_since_complaint = [K \in Channels |-> COMPLAINT_TIMEOUT]

\* C14 as stated: the version 1 load into an uninitialized pool leaves the five
\* complaint counters and the five complaint timers at 0.
C14_VersionOneZeroes ==
  [][(last_op'.op = "Guests::Load" /\ OpenPattern(gsts, "GSTS")
        /\ gsts.version = 1 /\ PoolFresh) =>
       /\ complaint_counter' = [K \in Channels |-> 0]
       /\ time_since_complaint' = [K \in Channels |-> 0]]_vars

\* C15: when Guests::Load or Staff::Load hits a data error (another pattern name, a
\* version it does not support, or a stream that ends part-way through the pattern
\* body), the pool is not left partially mutated: it equals the state it had when
\* Load began.
C15_FailedLoadChangesNothing ==
  [][/\ (last_op'.op = "Guests::Load" /\ last_op'.arg) =>
          UNCHANGED <<guestVars, complaintVars>>
     /\ (last_op'.op = "Staff::Load" /\ last_op'.arg) =>
          UNCHANGED staffVars]_vars

\* C16: violated preconditions of the staff registry end in an abort state rather than
\* a result: Staff::Get(kind, list_index) with list_index >= Count(kind) aborts,
\* Staff::Get or Staff::Count with a kind outside the handled set aborts, and
\* Staff::Dismiss(person) of a person not in the roster of its kind aborts; none of
\* them returns a member or modifies a roster.
C16_BrokenPreconditionAborts ==
  [][(\/ \E t \in Kinds, list_index \in 0..MaxStaff :
           list_index >= Count(t) /\ StaffGet(t, list_index)
      \/ \E t \in PersonTypes \ Kinds, list_index \in 0..MaxStaff : StaffGet(t, list_index)
      \/ \E t \in PersonTypes \ (Kinds \cup {"any"}) : StaffCount(t)
      \/ \E t \in PersonTypes : DismissAbsent(t)) =>
       /\ Aborted'
       /\ UNCHANGED staffVars]_vars

\* The ids the observer saw handed out whose owners are no longer in a roster.
DismissedIds == {hire_log[j] : j \in 1..Len(hire_log)} \ AllStaffIds

HireOps == {"HireMechanic", "HireHandyman", "HireGuard", "HireEntertainer"}

\* C17: Staff::Dismiss(person) for a person present in its kind's roster removes exactly
\* that one entry: Count(kind) drops by one, the remaining members of that roster keep
\* their relative order, the other three rosters, the request queue and last_person_id
\* are unchanged, and the dismissed id is never handed out again by a later hire.
C17_DismissRemovesOne ==
  [][/\ last_op'.op = "Dismiss" =>
          /\ \E kind \in Kinds :
               /\ \E i \in 1..Len(Roster(kind)) : Roster(kind)' = Erase(Roster(kind), i)
               /\ Count(kind)' = Count(kind) - 1
               /\ \A other \in Kinds \ {kind} : Roster(other)' = Roster(other)
          /\ mechanic_requests' = mechanic_requests
          /\ last_person_id' = last_person_id
     /\ last_op'.op \in HireOps => last_person_id' \notin DismissedIds]_vars

\* The kind a Hire operation adds to.
HiredKind(op) ==
  CASE op = "HireMechanic"    -> "mechanic"
    [] op = "HireHandyman"    -> "handyman"
    [] op = "HireGuard"       -> "guard"
    [] op = "HireEntertainer" -> "entertainer"

\* C18: the k-th hire, counted across the four Hire operations since Staff::Uninitialize
\* initialised the registry, receives the id obtained by pre-decrementing
\* last_person_id and the display number k = STAFF_BASE_ID - id, and is appended at the
\* end of its own kind's roster; Count(kind) rises by one, Count(ANY) equals the sum of
\* the four rosters' sizes, and the other rosters and the request queue are unchanged.
\* The observer counts the hires up to MaxHires; of a later hire it knows k > MaxHires.
C18_KthHire ==
  [][(last_op'.op \in HireOps /\ log_base = STAFF_BASE_ID) =>
       \E kind \in Kinds :
         /\ kind = HiredKind(last_op'.op)
         /\ LET new == Roster(kind)'[Len(Roster(kind)')]
            IN /\ new.id = U16(last_person_id - 1)
               /\ last_person_id' = new.id
               /\ IF Len(hire_log) < MaxHires
                    THEN DisplayNumber(new.id) = Len(hire_log) + 1
                    ELSE DisplayNumber(new.id) > MaxHires
               /\ Roster(kind)' = Append(Roster(kind), new)
               /\ Count(kind)' = Count(kind) + 1
               /\ Count("any")' =
                    Len(mechanics') + Len(handymen') + Len(guards') + Len(entertainers')
               /\ \A other \in Kinds \ {kind} : Roster(other)' = Roster(other)
               /\ mechanic_requests' = mechanic_requests]_vars

\* C19: Guests::OnAnimate(delay) adds delay to each of the five complaint timers,
\* animates every active slot exactly once in slot order, and for every slot whose
\* animation returns a result other than OK the slot is inactive afterwards and
\* free_idx <= that slot's index; slots whose animation returns OK and inactive slots
\* keep their active flag.
C19_OnAnimateReleases ==
  [][\A delay \in PoolDelays, res \in [Slots -> AnimateResults] :
       GuestsOnAnimate(delay, res) =>
         LET calls == last_op'.animated
         IN /\ \A K \in Channels : time_since_complaint'[K] = time_since_complaint[K] + delay
            /\ \A i \in Slots : active[i] <=> Cardinality({j \in 1..Len(calls) : calls[j] = i}) = 1
            /\ \A j \in 1..Len(calls) : calls[j] \in Slots
            /\ \A j \in 1..(Len(calls) - 1) : calls[j] < calls[j + 1]
            /\ \A i \in Slots :
                 IF active[i] /\ res[i] # "OAR_OK"
                   THEN ~active'[i] /\ free_idx' <= i
                   ELSE active'[i] = active[i]]_vars

\* C19 happens: OnAnimate animated at least two guests with the timers past the
\* timeout; the first of them left and free_idx is at its slot, the second stayed.
C19_Witness ==
  /\ last_op.op = "OnAnimate"
  /\ Len(last_op.animated) >= 2
  /\ ~active[last_op.animated[1]]
  /\ free_idx = last_op.animated[1]
  /\ active[last_op.animated[2]]
  /\ time_since_complaint["hunger"] > COMPLAINT_TIMEOUT

\* C20: if ComplainHunger keeps being called and OnAnimate keeps being called with a
\* positive delay, a message about hunger is eventually emitted, also after the 16 bit
\* counter or the 32 bit timer has been incremented many times.
C20_ComplaintSurfaces == <>(inbox # <<>>)

\* C21: a Complain<K>() call adds one to the counter of channel K; exactly when the
\* timer of K is then above COMPLAINT_TIMEOUT and the counter has reached the
\* threshold of K (80, 80, 30, 25, 15) it zeroes both and sends one message of kind
\* K; otherwise it sends nothing and keeps the incremented counter; the counters and
\* timers of the other four channels stay as they were.
C21_ComplainStep ==
  [][last_op'.op = "Complain" =>
       LET K == last_op'.channel
           threshold == CASE K = "hunger"    -> 80
                          [] K = "thirst"    -> 80
                          [] K = "waste"     -> 30
                          [] K = "litter"    -> 25
                          [] K = "vandalism" -> 15
           counter == (complaint_counter[K] + 1) % 65536
           fires == time_since_complaint[K] > COMPLAINT_TIMEOUT /\ counter >= threshold
       IN /\ fires => /\ complaint_counter'[K] = 0
                      /\ time_since_complaint'[K] = 0
                      /\ inbox' = Append(inbox, GUI_MESSAGE(K))
          /\ ~fires => /\ complaint_counter'[K] = counter
                       /\ time_since_complaint'[K] = time_since_complaint[K]
                       /\ inbox' = inbox
          /\ \A J \in Channels \ {K} :
               /\ complaint_counter'[J] = complaint_counter[J]
               /\ time_since_complaint'[J] = time_since_complaint[J]]_vars

\* The litter channel has sent its message after its counter ran past the threshold
\* during the cooldown, and the vandalism channel keeps its own count.
C21_Witness ==
  /\ last_op.op = "Complain"
  /\ last_op.arg
  /\ last_op.channel = "litter"
  /\ inbox = <<GUI_MESSAGE("litter"), GUI_MESSAGE("litter")>>
  /\ complaint_counter["litter"] = 0
  /\ time_since_complaint["litter"] = 0
  /\ complaint_counter["vandalism"] = MaxStray

\* C22: in every state the pool reaches from the empty pool, every slot below
\* free_idx is active, and so CountActiveGuests() is the number of active slots.
C22_BelowFreeIdxActive ==
  /\ \A i \in Slots : i < free_idx => active[i]
  /\ CountActiveGuests(active, free_idx) = Cardinality({i \in Slots : active[i]})

\* A spawn reused slot 0 and left free_idx at an active slot, below the first
\* inactive one.
C22_Witness ==
  /\ last_op.op = "OnNewDay"
  /\ last_op.slot = 0
  /\ free_idx = 1
  /\ active[0] /\ active[1] /\ ~active[2]

\* C23: the slot GetFree() hands to a spawning OnNewDay is inactive, it is the
\* lowest-indexed inactive slot of the whole pool, and free_idx is left one past it.
C23_GetFreeLowestInactive ==
  [][last_op'.op = "OnNewDay" /\ last_op'.slot # -1 =>
       LET free == {i \in Slots : ~active[i]}
           g == last_op'.slot
       IN /\ g \in free
          /\ \A i \in free : g <= i
          /\ free_idx' = g + 1
          /\ active' = [active EXCEPT ![g] = TRUE]]_vars

\* Slot 1 was freed by a deactivation while slot 2 stayed active, and the next spawn
\* took it again.
C23_Witness ==
  /\ last_op.op = "OnNewDay"
  /\ last_op.slot = 1
  /\ free_idx = 2
  /\ \A i \in 0 .. 2 : active[i]

\* C24: after the t-th DoTick of a day, 1 <= t < TICK_COUNT_PER_DAY, daily_frac is t
\* and next_daily_index is floor(t * GUEST_BLOCK_SIZE / TICK_COUNT_PER_DAY); after
\* the TICK_COUNT_PER_DAY-th both are 0. So next_daily_index stays within
\* 0 .. GUEST_BLOCK_SIZE and only grows within a day, and with 1000 ticks per day
\* and 4000 guests it is 1000 after 250 calls.
C24_DayCursor ==
  /\ CursorAfter(250, 4000, 1000) = [daily_frac |-> 250, next_daily_index |-> 1000]
  /\ [](/\ next_daily_index = (daily_frac * GUEST_BLOCK_SIZE) \div TICK_COUNT_PER_DAY
        /\ daily_frac < TICK_COUNT_PER_DAY
        /\ 0 <= next_daily_index /\ next_daily_index <= GUEST_BLOCK_SIZE)
  /\ [][last_op'.op = "DoTick" =>
          LET t == daily_frac + 1
          IN /\ t < TICK_COUNT_PER_DAY =>
                  /\ daily_frac' = t
                  /\ next_daily_index' = (t * GUEST_BLOCK_SIZE) \div TICK_COUNT_PER_DAY
                  /\ next_daily_index' >= next_daily_index
             /\ t = TICK_COUNT_PER_DAY => daily_frac' = 0 /\ next_daily_index' = 0
             /\ [daily_frac |-> daily_frac', next_daily_index |-> next_daily_index'] =
                  TickCursor([daily_frac |-> daily_frac,
                              next_daily_index |-> next_daily_index],
                             GUEST_BLOCK_SIZE, TICK_COUNT_PER_DAY)]_vars

\* The first DoTick of a day has run with guests in the pool.
C24_Witness ==
  /\ last_op.op = "DoTick"
  /\ daily_frac = 1
  /\ next_daily_index = GUEST_BLOCK_SIZE \div TICK_COUNT_PER_DAY
  /\ active[0]

\* C25: an OnNewDay that gets as far as the spawn voxel keeps a cached start_voxel
\* that is still a good edge road, without looking for another; it replaces an
\* invalid one, the initial (-1,-1) included, by the first good non-corner edge
\* coordinate in scan order ((x,0), (x,highest_y) for rising x, then (0,y),
\* (highest_x,y) for rising y) or by (-1,-1) when there is none; and a guest is
\* spawned only at a coordinate that is a good edge road at that moment.
C25_SpawnVoxelCache ==
  [][last_op'.op = "OnNewDay" =>
       LET good(v) == v[1] >= 0 /\ v[2] >= 0 /\ v \in paths
           reached == Cardinality(ActiveSet) < max_guests /\ last_op'.arg
           rank(c) ==
             IF c[2] = 0 /\ c[1] > 0 /\ c[1] < WorldXSize - 1 THEN 2 * (c[1] - 1)
             ELSE IF c[2] = WorldYSize - 1 /\ c[1] > 0 /\ c[1] < WorldXSize - 1
                  THEN 2 * (c[1] - 1) + 1
             ELSE IF c[1] = 0 THEN 2 * (WorldXSize - 2) + 2 * (c[2] - 1)
             ELSE 2 * (WorldXSize - 2) + 2 * (c[2] - 1) + 1
           cand == {c \in EdgeStacks : good(c)}
           first == IF cand = {} THEN <<-1, -1>>
                    ELSE CHOOSE c \in cand : \A d \in cand : rank(c) <= rank(d)
       IN /\ ~reached => start_voxel' = start_voxel
          /\ reached /\ good(start_voxel) => start_voxel' = start_voxel
          /\ reached /\ ~good(start_voxel) => start_voxel' = first
          /\ last_op'.slot # -1 =>
               /\ good(start_voxel')
               /\ start_voxel' \in EdgeStacks
               /\ last_op'.at = start_voxel']_vars

\* A guest was spawned at the cached (0,1) although (1,0), which comes first in
\* scan order, is a good edge road as well.
C25_Witness ==
  /\ last_op.op = "OnNewDay"
  /\ last_op.slot # -1
  /\ last_op.at = <<0, 1>>
  /\ start_voxel = <<0, 1>>
  /\ paths = {<<0, 1>>, <<1, 0>>}

\* C26: while the roster has a mechanic, DoTick keeps being called and every
\* assigned mechanic becomes unassigned again, every ride in the request queue is
\* eventually assigned to a mechanic by a DoTick; a DoTick that finds no mechanic
\* unassigned leaves the queue as it is.
C26_EveryRequestServed ==
  /\ \A r \in Rides :
       ((\E k \in 1..Len(mechanic_requests) : mechanic_requests[k] = r) /\ mechanics # <<>>)
         ~> (/\ last_op.op = "Staff::DoTick"
             /\ last_op.slot \in 1..Len(mechanics)
             /\ mechanics[last_op.slot].ride = r)
  /\ [][(last_op'.op = "Staff::DoTick" /\ mechanic_requests # <<>> /\ Unassigned = {}) =>
          mechanic_requests' = mechanic_requests]_vars

\* The only mechanic has just been given ride 2 by a tick while the request for ride
\* 1 waits behind it.
C26_Witness ==
  /\ last_op.op = "Staff::DoTick"
  /\ last_op.slot = 1
  /\ Len(mechanics) = 1
  /\ mechanics[1].ride = 2
  /\ mechanic_requests = <<1>>

\* C27: after Guests::Uninitialize() no slot is active, free_idx is 0, start_voxel is
\* (-1,-1), daily_frac and next_daily_index are 0, the five complaint counters are 0
\* and the five complaint timers are COMPLAINT_TIMEOUT: the pool is as constructed.
C27_UninitializeIsFresh ==
  [][last_op'.op = "Uninitialize" =>
       /\ \A i \in Slots : ~active'[i]
       /\ free_idx' = 0
       /\ start_voxel' = <<-1, -1>>
       /\ daily_frac' = 0
       /\ next_daily_index' = 0
       /\ \A K \in Channels :
            complaint_counter'[K] = 0 /\ time_since_complaint'[K] = COMPLAINT_TIMEOUT]_vars

\* C28: CheckFileHeader(name, version) returns true exactly when the file is open, at
\* least 8 bytes remain, the next 4 bytes are the name and the 4 bytes after them,
\* read as b0 + b1*2^8 + b2*2^16 + b3*2^24, are the version; it moves file_pos on
\* by 8 when the name matches, by 4 when it does not, and not at all when the file
\* is closed or too short; Remaining() is max(file_size - file_pos, 0) throughout.
C28_CheckFileHeader ==
  /\ [](/\ Remaining(rcd) >= 0
        /\ Remaining(rcd) = IF rcd.file_size - rcd.file_pos > 0
                              THEN rcd.file_size - rcd.file_pos ELSE 0)
  /\ [][last_op'.op = "CheckFileHeader" =>
          LET pos == rcd.file_pos
              b(i) == rcd.data[pos + 5 + i]
              top == IF b(3) >= 128 THEN b(3) - 256 ELSE b(3)
              value == b(0) + b(1) * 256 + b(2) * 65536 + top * 16777216
              avail == rcd.fp /\ rcd.file_size - pos >= 8
              named == \A i \in 1..4 : rcd.data[pos + i] = last_op'.hdr_name[i]
          IN /\ last_op'.arg <=> (avail /\ named /\ value = last_op'.version)
             /\ rcd'.file_pos = IF ~avail THEN pos ELSE IF named THEN pos + 8 ELSE pos + 4
             /\ rcd'.data = rcd.data /\ rcd'.file_size = rcd.file_size]_vars

\* A header after one other byte was accepted: its name matches and its version
\* bytes 0, 1, 0, 0 are the 2^8 asked for.
C28_Witness ==
  /\ last_op.op = "CheckFileHeader"
  /\ last_op.arg
  /\ last_op.version = 256
  /\ rcd.data = <<1, 1, 255, 1, 255, 0, 1, 0, 0>>
  /\ rcd.file_pos = 9

\* C29: the assertion of GetFree() holds on every call: OnNewDay calls it only when
\* the pool has an inactive slot, and in a full pool it returns without spawning.
C29_GetFreeAssertionHolds ==
  [][last_op'.op = "OnNewDay" =>
       /\ last_op'.assertion
       /\ last_op'.slot # -1 => \E i \in Slots : ~active[i]
       /\ (\A i \in Slots : active[i]) =>
            /\ last_op'.slot = -1
            /\ active' = active
            /\ free_idx' = free_idx]_vars

\* OnNewDay passed the guest-count and RNG tests with every slot taken and returned
\* without a guest.
C29_Witness ==
  /\ last_op.op = "OnNewDay"
  /\ last_op.arg
  /\ last_op.slot = -1
  /\ \A i \in Slots : active[i]
  /\ max_guests > GUEST_BLOCK_SIZE
  /\ start_voxel \in paths

\* C30: once Staff::NotifyRideDeletion(r) has been delivered the request queue holds
\* no entry for r, and no later Staff::DoTick hands r to a mechanic.
C30_NoRequestForRemovedRide ==
  [][/\ last_op'.op = "Staff::NotifyRideDeletion" =>
          \A k \in 1..Len(mechanic_requests') : mechanic_requests'[k] # last_op'.slot
     /\ (last_op'.op = "Staff::DoTick" /\ last_op'.slot \in 1..Len(mechanics)) =>
          mechanics'[last_op'.slot].ride \notin removed]_vars

(* C31: a UnixDirectoryReader holds at most one open directory stream,  *)
(* never closes a stream twice and never reads a closed one: the only   *)
(* stream open is the one dirfp points at, also after delete. OpenPath  *)
(* closes the stream still open before it opens the new one, which      *)
(* starts at the first entry of the directory asked for. NextEntry      *)
(* returns the path of the next entry, and at the end closes the        *)
(* stream and returns NULL; while the reader is closed NextEntry and    *)
(* NextFile return NULL and only OpenPath opens it. ClosePath on a      *)
(* closed reader changes nothing. NextFile returns the next entry that  *)
(* is a file, one for which EntryIsFile() is true, or NULL, with the    *)
(* stream closed, when no file is left.                                 *)
C31_OneStreamUsedWhileOpen ==
  /\ [](/\ ~streams.fault
        /\ streams.peak <= 1
        /\ OpenStreams(streams) =
             IF reader.null \/ reader.at.dirfp = NULL THEN {} ELSE {reader.at.dirfp})
  /\ [][IF reader.null \/ reader'.null THEN TRUE
        ELSE LET r == reader.at
                 rn == reader'.at
                 op == last_op'.op
                 res == last_op'.result
                 PathOf(st, i) == st.path \o <<"/">> \o disk[st.path][i].d_name
             IN /\ op = "OpenPath" /\ rn.dirfp # NULL =>
                     streams'.open[rn.dirfp] = [path |-> last_op'.path, pos |-> 0]
                /\ r.dirfp = NULL /\ op # "OpenPath" =>
                     /\ rn.dirfp = NULL
                     /\ op \in {"NextEntry", "NextFile"} => res.null
                /\ r.dirfp = NULL /\ op = "ClosePath" => rn = r /\ streams' = streams
                /\ r.dirfp # NULL /\ op = "ClosePath" =>
                     rn.dirfp = NULL /\ streams'.open[r.dirfp] = Closed
                /\ r.dirfp # NULL /\ op = "NextEntry" =>
                     LET st == streams.open[r.dirfp]
                     IN IF st.pos < Len(disk[st.path])
                          THEN /\ res = Ptr(PathOf(st, st.pos + 1))
                               /\ rn.dirfp = r.dirfp
                               /\ streams'.open[r.dirfp] = [st EXCEPT !.pos = @ + 1]
                          ELSE res.null /\ rn.dirfp = NULL
                /\ r.dirfp # NULL /\ op = "NextFile" =>
                     LET st == streams.open[r.dirfp]
                         files == {i \in (st.pos + 1)..Len(disk[st.path]) :
                                     disk[st.path][i].kind = "reg"}
                     IN IF files # {}
                          THEN LET i == CHOOSE i \in files : \A j \in files : i <= j
                               IN /\ res = Ptr(PathOf(st, i))
                                  /\ EntryIsFile(rn, disk)
                                  /\ rn.dirfp = r.dirfp
                                  /\ streams'.open[r.dirfp] = [st EXCEPT !.pos = i]
                          ELSE res.null /\ rn.dirfp = NULL]_vars

\* NextFile found no file left behind the entries "1" to "3" of directory "a", the last of
\* which it read and skipped, and returned NULL with the stream closed.
C31_Witness ==
  /\ last_op.op = "NextFile"
  /\ last_op.result.null
  /\ ~reader.null
  /\ reader.at.dirfp = NULL
  /\ reader.at.entry.null
  /\ reader.at.fpath = <<"a", "/", "3">>
  /\ disk[<<"a">>] = Listing(<<"reg", "dir", "gone">>)
  /\ streams.peak = 1
  /\ OpenStreams(streams) = {}

====
